---- MODULE Spec2Model ----
(***************************************************************************)
(* Model of the textor state ledger (.textor/state.json), its save queue,  *)
(* and the commands that reconcile the ledger with the files on disk.      *)
(*                                                                         *)
(* Strings of the program that the code takes apart (paths, routes) are    *)
(* sequences of one-character strings, so that startsWith / slice /        *)
(* includes are computed as the code computes them.                        *)
(***************************************************************************)
EXTENDS Integers, Sequences, FiniteSets, TLC

(***************************************************************************)
(* Bounds of the model.                                                    *)
(***************************************************************************)
MaxSaves == 3
MaxTasks == 2
MaxCmds == 2
MaxEdits == 2
MaxRuns == 1

MaxSyncs == 2

(***************************************************************************)
(* String helpers, as the JavaScript String methods of the same name.     *)
(***************************************************************************)
StartsWith(s, p) == Len(s) >= Len(p) /\ SubSeq(s, 1, Len(p)) = p

EndsWith(s, p) == Len(s) >= Len(p) /\ SubSeq(s, Len(s) - Len(p) + 1, Len(s)) = p

Includes(s, p) == \E i \in 1..(Len(s) - Len(p) + 1) : SubSeq(s, i, i + Len(p) - 1) = p

\* s.slice(n): the string without its first n characters
Slice(s, n) == SubSeq(s, n + 1, Len(s))

\* s.indexOf(p) + 1: the position of the first occurrence of p in s, 0 if none
IndexOf(s, p) ==
  IF Includes(s, p)
  THEN CHOOSE i \in 1..(Len(s) - Len(p) + 1) :
         /\ SubSeq(s, i, i + Len(p) - 1) = p
         /\ \A k \in 1..(i - 1) : SubSeq(s, k, k + Len(p) - 1) # p
  ELSE 0

\* the position of the last "/" of s, 0 if none
LastSlash(s) ==
  IF \E i \in 1..Len(s) : s[i] = "/"
  THEN CHOOSE i \in 1..Len(s) : s[i] = "/" /\ \A k \in (i + 1)..Len(s) : s[k] # "/"
  ELSE 0

\* path.basename(s) and path.dirname(s) of a path that does not end in "/"
Basename(s) == Slice(s, LastSlash(s))

Dirname(s) == IF LastSlash(s) <= 1 THEN SubSeq(s, 1, LastSlash(s)) ELSE SubSeq(s, 1, LastSlash(s) - 1)

\* path.extname(s): from the last "." of the basename, when it is not its first character
Extname(s) ==
  LET b == Basename(s) IN
  IF \E i \in 2..Len(b) : b[i] = "."
  THEN Slice(b, (CHOOSE i \in 2..Len(b) : b[i] = "." /\ \A k \in (i + 1)..Len(b) : b[k] # ".") - 1)
  ELSE <<>>

\* s.split("/")
RECURSIVE Split(_)
Split(s) ==
  LET i == IndexOf(s, <<"/">>) IN
  IF i = 0 THEN <<s>> ELSE <<SubSeq(s, 1, i - 1)>> \o Split(Slice(s, i))

\* JavaScript null (route of a standalone section, owner of an unowned file)
Null == <<"null">>

SLASH == <<"/">>
DOT == <<".">>

(***************************************************************************)
(* Configuration: the managed roots and the hashing mode.  The roots are   *)
(* config.paths.pages / features / components, relative to the project.    *)
(***************************************************************************)
pagesRoot == <<"p">>
featuresRoot == <<"f">>
componentsRoot == <<"c">>

(***************************************************************************)
(* process.cwd() and the conversions between absolute and project-relative *)
(* paths: path.join(process.cwd(), rel) and path.relative(process.cwd(),   *)
(* abs) for a path inside the project.                                     *)
(***************************************************************************)
CWD == <<"/", "w">>

AbsPath(rel) == CWD \o SLASH \o rel

RelPath(abs) == IF StartsWith(abs, CWD \o SLASH) THEN Slice(abs, Len(CWD) + 1) ELSE abs

(***************************************************************************)
(* Project paths of the model (project-relative, forward slashes).         *)
(***************************************************************************)
AstroExt == <<".", "a", "s", "t", "r", "o">>
TsExt == <<".", "t", "s">>
PageA == <<"p", "/", "a">> \o AstroExt
PageB == <<"p", "/", "b">> \o AstroExt
PageDB == <<"p", "/", "d", "/", "b">> \o AstroExt
FeatA == <<"f", "/", "a", "/", "A">> \o AstroExt
FeatB == <<"f", "/", "b", "/", "B">> \o AstroExt
CompK == <<"c", "/", "K", "/", "K">> \o AstroExt
CompKIdx == <<"c", "/", "K", "/", "i", "n", "d", "e", "x">> \o TsExt
Paths == {PageA, PageB, PageDB, FeatA, FeatB, CompK, CompKIdx}

(***************************************************************************)
(* File contents.  sig: the text carries a configured signature; ver: the   *)
(* text apart from names, imports and white space (0 as generated, 1 after  *)
(* an edit by hand, 2 after a formatter changed its tokens); ws: its white  *)
(* space and line endings; names: the component identifiers it uses; imp:   *)
(* the "../" segments of its relative imports (NoImp when it has none).     *)
(***************************************************************************)
Absent == [absent |-> TRUE]
NoImp == <<"none">>
UpDirs(d) == [i \in 1..d |-> ".."]
Names == {<<"A">>, <<"B">>, <<"K">>}
Contents == [sig : BOOLEAN, ver : 0..2, ws : 0..2, names : SUBSET Names,
             imp : {NoImp, UpDirs(1), UpDirs(2)}]

(***************************************************************************)
(* calculateHash(content, normalization).  The digest is taken of the       *)
(* normalized text; two texts have the same digest when their normalized    *)
(* texts are the same.  ws 1 differs from ws 0 in line endings only, ws 2   *)
(* in other white space.                                                    *)
(***************************************************************************)
Normalizations == {"none", "normalizeEOL", "stripWhitespace"}

NormalizeWs(ws, mode) ==
  IF mode = "stripWhitespace" THEN 0
  ELSE IF mode = "normalizeEOL" /\ ws = 1 THEN 0
  ELSE ws

CalculateHash(content, mode) == [content EXCEPT !.ws = NormalizeWs(content.ws, mode)]

(***************************************************************************)
(* The ledger document.                                                    *)
(***************************************************************************)
\* state.files is a JavaScript object: its keys keep their insertion order,
\* which JSON.stringify / JSON.parse preserve.  It is a sequence of entries.
EmptyFiles == <<>>

Keys(files) == {files[i].path : i \in 1..Len(files)}

HasFile(files, q) == \E i \in 1..Len(files) : files[i].path = q

\* state.files[q]
GetFile(files, q) == files[CHOOSE i \in 1..Len(files) : files[i].path = q].rec

\* state.files[q] = rec: an existing key keeps its place, a new key goes last
SetFile(files, q, rec) ==
  IF HasFile(files, q)
  THEN [i \in 1..Len(files) |-> IF files[i].path = q THEN [path |-> q, rec |-> rec] ELSE files[i]]
  ELSE Append(files, [path |-> q, rec |-> rec])

\* delete state.files[q]
DelFile(files, q) == SelectSeq(files, LAMBDA e : e.path # q)

\* loadState: the default returned when there is no ledger or it fails to parse
DefaultState == [sections |-> <<>>, components |-> <<>>, files |-> EmptyFiles]

\* JSON values that are not objects: null, a number, an array.  A JSON object
\* is a record of its fields.
JsonNull == [null |-> TRUE]
JsonScalar == [scalar |-> 5]
JsonArray == [array |-> <<>>]

IsPrimitive(value) == "null" \in DOMAIN value \/ "scalar" \in DOMAIN value

\* JSON.stringify(state, null, 2): of an array only its elements are written,
\* a property set on it (files) is not
Stringify(value) == IF "array" \in DOMAIN value THEN [array |-> value.array] ELSE value

\* the text of a file of the ledger directory: a JSON document, possibly cut short
FileText(doc, complete) == [doc |-> Stringify(doc), complete |-> complete]

VARIABLES stateFile, tmpFiles, saves, saveQueue, crashed, lastRead, tasks, disk, config, cmd, used

vars == <<stateFile, tmpFiles, saves, saveQueue, crashed, lastRead, tasks, disk, config, cmd, used>>

\* what the save queue and loadState leave alone
projVars == <<tasks, disk, config, cmd, used>>

(***************************************************************************)
(* loadState: existsSync, readFile, JSON.parse, default for files.         *)
(***************************************************************************)
\* loadState without its try / catch: what JSON.parse is given is returned
ParseNoCatch(text) ==
  IF text = Absent THEN DefaultState
  ELSE text.doc

\* a text that is cut short does not parse; state.files of null or of a
\* number raises (the module is in strict mode): both end in the catch
ParseState(text) ==
  IF text = Absent THEN DefaultState
  ELSE IF ~text.complete THEN DefaultState
  ELSE IF IsPrimitive(text.doc) THEN DefaultState
  ELSE IF "files" \in DOMAIN text.doc THEN text.doc
  ELSE [f \in (DOMAIN text.doc) \cup {"files"} |->
          IF f = "files" THEN EmptyFiles ELSE text.doc[f]]

(***************************************************************************)
(* saveState: the save queue.  A job is the callback chained to saveQueue;  *)
(* prev is the job whose settled promise it waits for (0: the initial       *)
(* resolved promise).                                                      *)
(***************************************************************************)
Settled(j) == saves[j].st \in {"done", "failed"}

Running(j) == saves[j].st \in {"opened", "writing", "written", "closed"}

CanStartNoChain(j) == saves[j].st = "queued"

\* the chain without `result.catch(() => {})`: the callback of job j runs
\* only when the promise it was chained to was fulfilled
CanStartAfterSuccess(j) ==
  /\ saves[j].st = "queued"
  /\ IF saves[j].prev = 0 THEN TRUE ELSE saves[saves[j].prev].st = "done"

\* the then-callback of job j runs once the promise it was chained to settled
CanStart(j) ==
  /\ saves[j].st = "queued"
  /\ IF saves[j].prev = 0 THEN TRUE ELSE Settled(saves[j].prev)

\* where job j writes the document: its own temporary file
TargetInPlace(j) == 0

SaveTarget(j) == j

\* the files of the ledger directory: 0 is state.json, j > 0 the temp file of job j
LedgerDirFile(k) == IF k = 0 THEN stateFile ELSE tmpFiles[k]

WriteLedgerDir(k, text) ==
  IF k = 0 THEN stateFile' = text /\ UNCHANGED tmpFiles
  ELSE tmpFiles' = [tmpFiles EXCEPT ![k] = text] /\ UNCHANGED stateFile

\* saveState(state): chain the job and make it the new tail of the queue
Enqueue(doc) ==
  /\ saves' = Append(saves, [doc |-> doc, prev |-> saveQueue, st |-> "queued"])
  /\ saveQueue' = Len(saves) + 1

IssueSave(doc) ==
  /\ ~crashed
  /\ Len(saves) < MaxSaves
  /\ Enqueue(doc)
  /\ UNCHANGED <<stateFile, tmpFiles, crashed, lastRead, projVars>>

\* open(tempPath, 'w'): the file exists and is empty
SaveOpen(j) ==
  /\ ~crashed
  /\ CanStart(j)
  /\ WriteLedgerDir(SaveTarget(j), FileText(saves[j].doc, FALSE))
  /\ saves' = [saves EXCEPT ![j].st = "opened"]
  /\ UNCHANGED <<saveQueue, crashed, lastRead, projVars>>

\* handle.writeFile(content): all of the text is in the file
SaveWrite(j) ==
  /\ ~crashed
  /\ saves[j].st = "opened"
  /\ WriteLedgerDir(SaveTarget(j), FileText(saves[j].doc, TRUE))
  /\ saves' = [saves EXCEPT ![j].st = "written"]
  /\ UNCHANGED <<saveQueue, crashed, lastRead, projVars>>

\* handle.sync(); handle.close()
SaveClose(j) ==
  /\ ~crashed
  /\ saves[j].st = "written"
  /\ saves' = [saves EXCEPT ![j].st = "closed"]
  /\ UNCHANGED <<stateFile, tmpFiles, saveQueue, crashed, lastRead, projVars>>

\* rename(tempPath, statePath): atomic replacement
SaveRename(j) ==
  /\ ~crashed
  /\ saves[j].st = "closed"
  /\ stateFile' = LedgerDirFile(SaveTarget(j))
  /\ tmpFiles' = [tmpFiles EXCEPT ![j] = Absent]
  /\ saves' = [saves EXCEPT ![j].st = "done"]
  /\ UNCHANGED <<saveQueue, crashed, lastRead, projVars>>

\* open, writeFile, sync, close or rename raises: the job's promise rejects
SaveFail(j) ==
  /\ ~crashed
  /\ \/ CanStart(j)
     \/ Running(j)
  /\ saves' = [saves EXCEPT ![j].st = "failed"]
  /\ UNCHANGED <<stateFile, tmpFiles, saveQueue, crashed, lastRead, projVars>>

\* the process stops (killed, power loss); nothing of it runs afterwards
Crash ==
  /\ ~crashed
  /\ crashed' = TRUE
  /\ UNCHANGED <<stateFile, tmpFiles, saves, saveQueue, lastRead, projVars>>

\* loadState of this or of a later process: what readFile returns
Load ==
  /\ lastRead' = stateFile
  /\ lastRead' # lastRead
  /\ UNCHANGED <<stateFile, tmpFiles, saves, saveQueue, crashed, projVars>>

(***************************************************************************)
(* The save queue on its own: saveState calls issued at any time, their     *)
(* jobs advancing one I/O operation at a time, loadState reading at any     *)
(* time, and the process stopping at any time.                             *)
(***************************************************************************)
GenContent(nms) == [sig |-> TRUE, ver |-> 0, ws |-> 0, names |-> nms, imp |-> NoImp]

FileRecord(kind, template, hash, owner) ==
  [kind |-> kind, template |-> template, hash |-> hash, owner |-> owner]

RouteA == <<"/", "a">>
RouteB == <<"/", "b">>

RecPageA == FileRecord("route", "route", CalculateHash(GenContent({<<"A">>}), "none"), RouteA)
RecFeatA == FileRecord("feature", "feature", CalculateHash(GenContent({<<"A">>}), "none"), RouteA)

DocA == [DefaultState EXCEPT !.files = SetFile(EmptyFiles, PageA, RecPageA)]
DocAB == [DefaultState EXCEPT !.files = SetFile(SetFile(EmptyFiles, PageA, RecPageA), FeatA, RecFeatA)]
SaveDocs == {DefaultState, DocA, DocAB}

NoCmd == [op |-> "none"]
NoneUsed == [cmds |-> 0, edits |-> 0, runs |-> 0]
NoDisk == [q \in Paths |-> Absent]
DefaultConfig == [normalization |-> "normalizeEOL", formatting |-> "none"]

InitSave ==
  /\ stateFile \in {Absent, FileText(DefaultState, TRUE)}
  /\ tmpFiles = [j \in 1..MaxSaves |-> Absent]
  /\ saves = <<>>
  /\ saveQueue = 0
  /\ crashed = FALSE
  /\ lastRead = Absent
  /\ tasks = <<>>
  /\ disk = NoDisk
  /\ config = DefaultConfig
  /\ cmd = NoCmd
  /\ used = NoneUsed

NextSave ==
  \/ \E doc \in SaveDocs : IssueSave(doc)
  \/ \E j \in 1..Len(saves) : SaveOpen(j)
  \/ \E j \in 1..Len(saves) : SaveWrite(j)
  \/ \E j \in 1..Len(saves) : SaveClose(j)
  \/ \E j \in 1..Len(saves) : SaveRename(j)
  \/ \E j \in 1..Len(saves) : SaveFail(j)
  \/ Crash
  \/ Load

SpecSave == InitSave /\ [][NextSave]_vars

(***************************************************************************)
(* C1: within one process at most one save is writing its temporary file   *)
(* or renaming at a time, saves run in the order they were issued (a later  *)
(* one has not started before every earlier one has settled, so it never    *)
(* completes first), and once all have completed the ledger file holds the  *)
(* document of the last-issued save.                                       *)
(***************************************************************************)
C1_SavesSerialized ==
  /\ Cardinality({j \in 1..Len(saves) : Running(j)}) <= 1
  /\ \A j, k \in 1..Len(saves) : (j < k /\ saves[k].st # "queued") => Settled(j)
  /\ (Len(saves) > 0 /\ \A j \in 1..Len(saves) : saves[j].st = "done")
       => stateFile = FileText(saves[Len(saves)].doc, TRUE)

\* a save issued while an earlier one is between its temp write and its rename
C1_Witness ==
  /\ Len(saves) >= 2
  /\ saves[1].st = "closed"
  /\ saves[2].st = "queued"
  /\ saves[1].doc # saves[2].doc

(***************************************************************************)
(* C3: at every point of a save, also when the process stops between the    *)
(* temp write and the rename, state.json holds a complete document, either  *)
(* the one from before the save or the one being saved; loadState never     *)
(* reads a cut-short document.                                             *)
(***************************************************************************)
CompleteOrAbsent(text) == text = Absent \/ text.complete

C3_AtomicSave ==
  /\ [](CompleteOrAbsent(stateFile) /\ CompleteOrAbsent(lastRead))
  /\ [][stateFile' = stateFile
        \/ \E j \in 1..Len(saves) :
             /\ Running(j)
             /\ stateFile' = FileText(saves[j].doc, TRUE)]_vars

\* the process stopped after the temp file was written and before the rename
C3_Witness ==
  /\ crashed
  /\ \E j \in 1..Len(saves) :
       /\ saves[j].st \in {"written", "closed"}
       /\ tmpFiles[j] = FileText(saves[j].doc, TRUE)
       /\ stateFile # tmpFiles[j]
       /\ stateFile # Absent

(***************************************************************************)
(* registerFile calls in flight at the same time.  A call reads the ledger  *)
(* (loadState), sets its entry in the copy it read, and saves the copy.     *)
(***************************************************************************)
RegPaths == {PageA, FeatA, FeatB}

RegRecord(q) ==
  FileRecord(IF StartsWith(q, pagesRoot \o SLASH) THEN "route" ELSE "feature", "t",
             CalculateHash(GenContent({}), config.normalization), Null)

\* registerFile(filePath, record) up to the first await of loadState:
\* existsSync is synchronous, readFile is not
RegStart(q) ==
  /\ ~crashed
  /\ Len(tasks) < MaxTasks
  /\ \A t \in 1..Len(tasks) : tasks[t].path # AbsPath(q)
  /\ tasks' = Append(tasks,
       IF stateFile = Absent
       THEN [path |-> AbsPath(q), pc |-> "loaded", state |-> DefaultState, job |-> 0]
       ELSE [path |-> AbsPath(q), pc |-> "reading", state |-> DefaultState, job |-> 0])
  /\ UNCHANGED <<stateFile, tmpFiles, saves, saveQueue, crashed, lastRead, disk, config, cmd, used>>

\* readFile and JSON.parse of loadState complete
RegRead(t) ==
  /\ ~crashed
  /\ tasks[t].pc = "reading"
  /\ tasks' = [tasks EXCEPT ![t].pc = "loaded", ![t].state = ParseState(stateFile)]
  /\ lastRead' = stateFile
  /\ UNCHANGED <<stateFile, tmpFiles, saves, saveQueue, crashed, disk, config, cmd, used>>

\* state.files[normalizedPath] = {...}; saveState(state)
RegSave(t) ==
  /\ ~crashed
  /\ tasks[t].pc = "loaded"
  /\ Len(saves) < MaxSaves
  /\ LET st == [tasks[t].state EXCEPT
                  !.files = SetFile(@, RelPath(tasks[t].path), RegRecord(RelPath(tasks[t].path)))]
     IN /\ Enqueue(st)
        /\ tasks' = [tasks EXCEPT ![t].pc = "saving", ![t].state = st, ![t].job = Len(saves) + 1]
  /\ UNCHANGED <<stateFile, tmpFiles, crashed, lastRead, disk, config, cmd, used>>

\* await saveState(state) returns
RegDone(t) ==
  /\ ~crashed
  /\ tasks[t].pc = "saving"
  /\ saves[tasks[t].job].st = "done"
  /\ tasks' = [tasks EXCEPT ![t].pc = "done"]
  /\ UNCHANGED <<stateFile, tmpFiles, saves, saveQueue, crashed, lastRead, disk, config, cmd, used>>

InitReg ==
  /\ stateFile \in {Absent, FileText(DefaultState, TRUE), FileText(DocA, TRUE)}
  /\ tmpFiles = [j \in 1..MaxSaves |-> Absent]
  /\ saves = <<>>
  /\ saveQueue = 0
  /\ crashed = FALSE
  /\ lastRead = Absent
  /\ tasks = <<>>
  /\ disk = NoDisk
  /\ config \in [normalization : Normalizations, formatting : {"none"}]
  /\ cmd = NoCmd
  /\ used = NoneUsed

NextReg ==
  \/ \E q \in RegPaths : RegStart(q)
  \/ \E t \in 1..Len(tasks) : RegRead(t)
  \/ \E t \in 1..Len(tasks) : RegSave(t)
  \/ \E t \in 1..Len(tasks) : RegDone(t)
  \/ \E j \in 1..Len(saves) : SaveOpen(j)
  \/ \E j \in 1..Len(saves) : SaveWrite(j)
  \/ \E j \in 1..Len(saves) : SaveClose(j)
  \/ \E j \in 1..Len(saves) : SaveRename(j)

SpecReg == InitReg /\ [][NextReg]_vars

(***************************************************************************)
(* C2: when several registerFile calls for distinct paths are in flight at  *)
(* the same time, after all of them have completed the ledger has an entry  *)
(* for every registered path.                                              *)
(***************************************************************************)
AllTasksDone == Len(tasks) >= 2 /\ \A t \in 1..Len(tasks) : tasks[t].pc = "done"

C2_NoLostRegistration ==
  AllTasksDone =>
    \A t \in 1..Len(tasks) : HasFile(ParseState(stateFile).files, RelPath(tasks[t].path))

(***************************************************************************)
(* utils/filesystem.js: directory scan, signature test, kind inference.     *)
(***************************************************************************)
Exists(dsk, q) == q \in DOMAIN dsk /\ dsk[q] # Absent

UnderRoot(q, root) == StartsWith(q, root \o SLASH)

\* the order in which the roots are scanned and, within a root, readdir lists
ScanOrder == <<PageA, PageB, PageDB, FeatA, FeatB, CompK, CompKIdx>>

\* scanDirectory over the three managed roots: the files found, in scan order
ScanManaged(dsk) ==
  SelectSeq(ScanOrder, LAMBDA q :
    /\ Exists(dsk, q)
    /\ (UnderRoot(q, pagesRoot) \/ UnderRoot(q, featuresRoot) \/ UnderRoot(q, componentsRoot)))

\* isTextorGenerated(path, signatures): the content contains a configured signature
IsTextorGenerated(dsk, q) == Exists(dsk, q) /\ dsk[q].sig

InferKind(q) ==
  IF UnderRoot(q, pagesRoot) THEN "route"
  ELSE IF UnderRoot(q, featuresRoot) THEN "feature"
  ELSE IF UnderRoot(q, componentsRoot) THEN "component"
  ELSE "unknown"

SeqToSet(sq) == {sq[i] : i \in 1..Len(sq)}

KeySeq(files) == [i \in 1..Len(files) |-> files[i].path]

(***************************************************************************)
(* getProjectStatus(config, state).                                        *)
(***************************************************************************)
\* the scan result after step 1, without diskFiles.delete(relativePath)
RemainingKeepTracked(st, dsk) == ScanManaged(dsk)

\* the scan result after step 1: every tracked file found on disk is removed
RemainingDiskFiles(st, dsk) ==
  SelectSeq(ScanManaged(dsk), LAMBDA q : ~(HasFile(st.files, q) /\ Exists(dsk, q)))

GetProjectStatus(cfg, st, dsk) ==
  LET keys == KeySeq(st.files)
      differs(q) == CalculateHash(dsk[q], cfg.normalization) # GetFile(st.files, q).hash
      rest == RemainingDiskFiles(st, dsk)
  IN [missing   |-> SelectSeq(keys, LAMBDA q : ~Exists(dsk, q)),
      modified  |-> SelectSeq(keys, LAMBDA q : Exists(dsk, q) /\ differs(q)),
      untracked |-> SelectSeq(rest, LAMBDA q : IsTextorGenerated(dsk, q)),
      orphaned  |-> SelectSeq(rest, LAMBDA q : ~IsTextorGenerated(dsk, q)),
      synced    |-> Cardinality({i \in 1..Len(keys) : Exists(dsk, keys[i]) /\ ~differs(keys[i])})]

(***************************************************************************)
(* reconstructComponents(files, config) and reconstructSections(state,      *)
(* config).  A JavaScript Map is a sequence of entries: set on an existing  *)
(* key replaces the value in place.                                        *)
(***************************************************************************)
MapHas(m, k) == \E i \in 1..Len(m) : m[i].key = k

MapSet(m, k, v) ==
  IF MapHas(m, k)
  THEN [i \in 1..Len(m) |-> IF m[i].key = k THEN [key |-> k, val |-> v] ELSE m[i]]
  ELSE Append(m, [key |-> k, val |-> v])

MapValues(m) == [i \in 1..Len(m) |-> m[i].val]

RECURSIVE ComponentsFrom(_, _, _)
ComponentsFrom(files, i, acc) ==
  IF i > Len(files) THEN acc
  ELSE LET q == files[i].path
           rel == Slice(q, Len(componentsRoot) + 1)
           nm == Split(rel)[1]
       IN IF UnderRoot(q, componentsRoot) /\ rel # <<>> /\ ~MapHas(acc, nm)
          THEN ComponentsFrom(files, i + 1,
                 MapSet(acc, nm, [name |-> nm, path |-> componentsRoot \o SLASH \o nm]))
          ELSE ComponentsFrom(files, i + 1, acc)

ReconstructComponents(files) == MapValues(ComponentsFrom(files, 1, <<>>))

INDEX == <<"i", "n", "d", "e", "x">>
ASTRO == <<"a", "s", "t", "r", "o">>
RouteExts == {ASTRO, <<"t", "s">>, <<"j", "s">>, <<"t", "s", "x">>, <<"j", "s", "x">>}

\* section.route === '/' ? 'index' : section.route.slice(1)
RoutePathOf(route) == IF route = SLASH THEN INDEX ELSE Slice(route, 1)

\* the filter of reconstructSections: the section's route file and at least
\* one file of its feature directory are keys of state.files
SectionStillValid(files, sec) ==
  /\ \E i \in 1..Len(files) :
       \/ StartsWith(files[i].path, pagesRoot \o SLASH \o RoutePathOf(sec.route) \o DOT)
       \/ files[i].path = pagesRoot \o SLASH \o RoutePathOf(sec.route) \o SLASH \o INDEX \o DOT \o ASTRO
  /\ \E i \in 1..Len(files) : StartsWith(files[i].path, sec.featurePath \o SLASH)

\* section.route.slice(1) on a null route raises a TypeError; the callback
\* that evaluates it runs once per key of state.files
ReconstructSectionsThrows(st) ==
  /\ Len(st.files) > 0
  /\ \E i \in 1..Len(st.sections) : st.sections[i].route = Null

\* s.replace(/\.(astro|ts|js|tsx|jsx)$/, '')
StripRouteExt(s) ==
  IF \E e \in RouteExts : EndsWith(s, DOT \o e)
  THEN SubSeq(s, 1, Len(s) - Len(CHOOSE e \in RouteExts : EndsWith(s, DOT \o e)) - 1)
  ELSE s

\* s.replace(/\/index$/, '')
StripIndex(s) == IF EndsWith(s, SLASH \o INDEX) THEN SubSeq(s, 1, Len(s) - Len(INDEX) - 1) ELSE s

RouteOfPage(q) == SLASH \o StripIndex(StripRouteExt(Slice(q, Len(pagesRoot) + 1)))

\* the first key under the features root that contains "/<routeName>/"
PossibleFeature(files, routeName) ==
  LET hit(q) == UnderRoot(q, featuresRoot) /\ Includes(q, SLASH \o routeName \o SLASH)
      hits == SelectSeq(KeySeq(files), hit)
  IN IF Len(hits) = 0 THEN <<>> ELSE hits[1]

RECURSIVE DiscoverSections(_, _, _)
DiscoverSections(files, i, acc) ==
  IF i > Len(files) THEN acc
  ELSE LET q == files[i].path
           route == RouteOfPage(q)
           feat == PossibleFeature(files, Basename(IF route = SLASH THEN INDEX ELSE route))
           parts == Split(feat)
           pos == IF \E k \in 1..Len(parts) : parts[k] = Basename(featuresRoot)
                  THEN CHOOSE k \in 1..Len(parts) :
                         /\ parts[k] = Basename(featuresRoot)
                         /\ \A n \in 1..(k - 1) : parts[n] # Basename(featuresRoot)
                  ELSE 0
       IN IF /\ UnderRoot(q, pagesRoot)
             /\ ~MapHas(acc, route)
             /\ feat # <<>>
             /\ pos > 0
             /\ pos < Len(parts)
          THEN DiscoverSections(files, i + 1,
                 MapSet(acc, route, [name |-> parts[pos + 1],
                                     route |-> route,
                                     featurePath |-> featuresRoot \o SLASH \o parts[pos + 1],
                                     extension |-> Extname(q)]))
          ELSE DiscoverSections(files, i + 1, acc)

RECURSIVE MapOfSections(_, _, _)
MapOfSections(secs, i, acc) ==
  IF i > Len(secs) THEN acc
  ELSE MapOfSections(secs, i + 1, MapSet(acc, secs[i].route, secs[i]))

\* reconstructSections when it does not raise
ReconstructSections(st) ==
  LET valid == SelectSeq(st.sections, LAMBDA sec : SectionStillValid(st.files, sec))
  IN MapValues(DiscoverSections(st.files, 1, MapOfSections(valid, 1, <<>>)))

(***************************************************************************)
(* Generation: addSection and createComponent.  Each file is written with   *)
(* its signature and registered with the hash of what was written; the      *)
(* formatter runs on the written files afterwards.                         *)
(***************************************************************************)
\* writeFileWithSignature: the signature is prepended when absent
WithSignature(content) == [content EXCEPT !.sig = TRUE]

\* toPascalCase of the feature paths of the model
FeatureComponentName(feat) == IF feat = <<"a">> THEN <<"A">> ELSE <<"B">>

\* routeToFilePath(route, {mode: 'flat'}) joined to the pages root
RouteFileOf(route) == pagesRoot \o SLASH \o Slice(route, 1) \o AstroExt

FeatureDirOf(feat) == featuresRoot \o SLASH \o feat

FeatureFileOf(feat) == FeatureDirOf(feat) \o SLASH \o FeatureComponentName(feat) \o AstroExt

\* the number of "../" of an import, from a file at q, of a file outside q's root
DirDepth(q) == Len(Split(Dirname(q)))

\* generateRouteTemplate / mergeRouteTemplate
RouteContent(dsk, q, nm) ==
  IF Exists(dsk, q)
  THEN [dsk[q] EXCEPT !.names = @ \cup {nm}]
  ELSE [sig |-> FALSE, ver |-> 0, ws |-> 0, names |-> {nm}, imp |-> UpDirs(DirDepth(q))]

FeatureContent(nm) == [sig |-> FALSE, ver |-> 0, ws |-> 0, names |-> {nm}, imp |-> NoImp]

\* what the formatter may make of a file: nothing, white space, or tokens
FormatOutcomes == {"same", "ws", "text"}

Formatted(content, how) ==
  IF how = "ws" THEN [content EXCEPT !.ws = 2]
  ELSE IF how = "text" THEN [content EXCEPT !.ver = 2]
  ELSE content

FormatFiles(dsk, written, how) ==
  [q \in DOMAIN dsk |-> IF q \in written /\ config.formatting # "none"
                        THEN Formatted(dsk[q], how) ELSE dsk[q]]

\* addSectionToState: drop the sections of the same route, push the new one
AddSectionToState(st, sec) ==
  [st EXCEPT !.sections = Append(SelectSeq(@, LAMBDA x : x.route # sec.route), sec)]

\* addComponentToState: drop the components of the same name, push the new one
AddComponentToState(st, comp) ==
  [st EXCEPT !.components = Append(SelectSeq(@, LAMBDA x : x.name # comp.name), comp)]

RegisterFile(st, q, rec) == [st EXCEPT !.files = SetFile(@, q, rec)]

Idle == IF cmd.op = "none" THEN TRUE ELSE cmd.pc = "done"

CanRun == ~crashed /\ Idle /\ used.cmds < MaxCmds

\* status, sync and prune runs are counted apart
CanReconcile == ~crashed /\ Idle /\ used.runs < MaxRuns

\* addSectionCommand(route, featurePath, {}) once its paths are resolved: rf
\* the route file, ff the feature file ; route Null: a standalone feature
AddSectionAt(route, feat, how, rf, ff) ==
  LET nm == FeatureComponentName(feat)
      st0 == ParseState(stateFile)
      rc == WithSignature(RouteContent(disk, rf, nm))
      d1 == IF route = Null THEN disk ELSE [disk EXCEPT ![rf] = rc]
      st1 == IF route = Null THEN st0
             ELSE RegisterFile(st0, rf,
                    FileRecord("route", "route", CalculateHash(rc, config.normalization), route))
      featureExists == Exists(disk, ff)
      fc == WithSignature(FeatureContent(nm))
      d2 == IF featureExists THEN d1 ELSE [d1 EXCEPT ![ff] = fc]
      st2 == IF featureExists THEN st1
             ELSE RegisterFile(st1, ff,
                    FileRecord("feature", "feature", CalculateHash(fc, config.normalization), route))
      written == (IF route = Null THEN {} ELSE {rf}) \cup (IF featureExists THEN {} ELSE {ff})
      st3 == AddSectionToState(st2, [name |-> nm, route |-> route, featurePath |-> feat,
                                     layout |-> "Main", extension |-> AstroExt])
  IN /\ CanRun
     /\ disk' = FormatFiles(d2, written, how)
     /\ stateFile' = FileText(st3, TRUE)
     /\ cmd' = [op |-> "addSection", pc |-> "done", outcome |-> "ok"]
     /\ used' = [used EXCEPT !.cmds = @ + 1]
     /\ UNCHANGED <<tmpFiles, saves, saveQueue, crashed, lastRead, tasks, config>>

\* addSectionCommand on the routes and features of the model, whose paths
\* lie under the roots
AddSection(route, feat, how) ==
  /\ route # Null => RouteFileOf(route) \in Paths
  /\ AddSectionAt(route, feat, how, RouteFileOf(route), FeatureFileOf(feat))

\* createComponentCommand("K", {})
CreateComponent(how) ==
  LET nm == <<"K">>
      st0 == ParseState(stateFile)
      cc == WithSignature(FeatureContent(nm))
      ic == WithSignature(FeatureContent(nm))
      componentExists == Exists(disk, CompK)
      indexExists == Exists(disk, CompKIdx)
      d1 == IF componentExists THEN disk ELSE [disk EXCEPT ![CompK] = cc]
      st1 == IF componentExists THEN st0
             ELSE RegisterFile(st0, CompK,
                    FileRecord("component", "component", CalculateHash(cc, config.normalization), nm))
      d2 == IF indexExists THEN d1 ELSE [d1 EXCEPT ![CompKIdx] = ic]
      st2 == IF indexExists THEN st1
             ELSE RegisterFile(st1, CompKIdx,
                    FileRecord("component-file", "index", CalculateHash(ic, config.normalization), nm))
      written == (IF componentExists THEN {} ELSE {CompK}) \cup (IF indexExists THEN {} ELSE {CompKIdx})
      st3 == AddComponentToState(st2, [name |-> nm, path |-> AbsPath(componentsRoot \o SLASH \o nm)])
  IN /\ CanRun
     /\ disk' = FormatFiles(d2, written, how)
     /\ stateFile' = FileText(st3, TRUE)
     /\ cmd' = [op |-> "createComponent", pc |-> "done", outcome |-> "ok"]
     /\ used' = [used EXCEPT !.cmds = @ + 1]
     /\ UNCHANGED <<tmpFiles, saves, saveQueue, crashed, lastRead, tasks, config>>

(***************************************************************************)
(* Changes made to the project files outside the tool.                     *)
(***************************************************************************)
CanEdit == ~crashed /\ Idle /\ used.edits < MaxEdits

Edited == /\ cmd' = NoCmd
          /\ used' = [used EXCEPT !.edits = @ + 1]
          /\ UNCHANGED <<stateFile, tmpFiles, saves, saveQueue, crashed, lastRead, tasks, config>>

\* the text of a file is changed by hand, keeping or dropping its signature
UserEdit(q, keepSig) ==
  /\ CanEdit
  /\ Exists(disk, q)
  /\ disk[q].ver # 1
  /\ disk' = [disk EXCEPT ![q] = [@ EXCEPT !.ver = 1, !.sig = @ /\ keepSig]]
  /\ Edited

\* the line endings of a file are converted (LF to CRLF), nothing else
UserConvertEOL(q) ==
  /\ CanEdit
  /\ Exists(disk, q)
  /\ disk[q].ws = 0
  /\ disk' = [disk EXCEPT ![q] = [@ EXCEPT !.ws = 1]]
  /\ Edited

UserDelete(q) ==
  /\ CanEdit
  /\ Exists(disk, q)
  /\ disk' = [disk EXCEPT ![q] = Absent]
  /\ Edited

\* a file is created by hand, with or without a signature line
UserCreate(q, withSig) ==
  /\ CanEdit
  /\ ~Exists(disk, q)
  /\ disk' = [disk EXCEPT ![q] = [sig |-> withSig, ver |-> 1, ws |-> 0, names |-> {}, imp |-> NoImp]]
  /\ Edited

(***************************************************************************)
(* syncCommand(options).                                                   *)
(***************************************************************************)
\* the record with one field set (added when the record lacks it)
RecSet(rec, field, val) ==
  [f \in (DOMAIN rec) \cup {field} |-> IF f = field THEN val ELSE rec[f]]

RECURSIVE DelFiles(_, _)
DelFiles(files, qs) == IF qs = <<>> THEN files ELSE DelFiles(DelFile(files, Head(qs)), Tail(qs))

\* with the test options.force alone
SyncUpdatedForced(st, dsk, opts) ==
  SelectSeq(KeySeq(st.files), LAMBDA q :
    /\ Exists(dsk, q)
    /\ CalculateHash(dsk[q], config.normalization) # GetFile(st.files, q).hash
    /\ opts.force)

\* step 1: the tracked files whose hash is to be updated
SyncUpdated(st, dsk, opts) ==
  SelectSeq(KeySeq(st.files), LAMBDA q :
    /\ Exists(dsk, q)
    /\ CalculateHash(dsk[q], config.normalization) # GetFile(st.files, q).hash
    /\ (IsTextorGenerated(dsk, q) \/ opts.force))

SyncMissing(st, dsk) == SelectSeq(KeySeq(st.files), LAMBDA q : ~Exists(dsk, q))

\* step 2: the files on disk, not in the ledger, that are to be tracked
SyncAdded(st, dsk, opts) ==
  SelectSeq(RemainingDiskFiles(st, dsk), LAMBDA q : IsTextorGenerated(dsk, q) \/ opts.includeAll)

RECURSIVE SyncAddFiles(_, _, _)
SyncAddFiles(files, dsk, qs) ==
  IF qs = <<>> THEN files
  ELSE SyncAddFiles(SetFile(files, Head(qs),
                      [kind |-> InferKind(Head(qs)),
                       hash |-> CalculateHash(dsk[Head(qs)], config.normalization),
                       synced |-> TRUE]),
                    dsk, Tail(qs))

\* the ledger files were the hashes of the updated files not written
SyncSkipUpdate(files, dsk, qs) == files

RECURSIVE SyncUpdateFiles(_, _, _)
SyncUpdateFiles(files, dsk, qs) ==
  IF qs = <<>> THEN files
  ELSE SyncUpdateFiles(SetFile(files, Head(qs),
                         RecSet(RecSet(GetFile(files, Head(qs)), "hash",
                                       CalculateHash(dsk[Head(qs)], config.normalization)),
                                "synced", TRUE)),
                       dsk, Tail(qs))

\* a sync that goes on after its report whatever the options
SyncNeverStops(opts) == FALSE

\* if (options.dryRun) return: nothing is applied after the report
SyncStops(opts) == opts.dryRun

\* the outcome of syncCommand and the document it saves, if any
SyncResult(st, dsk, opts) ==
  LET added == SyncAdded(st, dsk, opts)
      updated == SyncUpdated(st, dsk, opts)
      missing == SyncMissing(st, dsk)
      changed == Len(added) > 0 \/ Len(updated) > 0 \/ Len(missing) > 0
      files == DelFiles(SyncUpdateFiles(SyncAddFiles(st.files, dsk, added), dsk, updated), missing)
      st1 == [st EXCEPT !.files = files]
      st2 == [st1 EXCEPT !.components = ReconstructComponents(files)]
      st3 == [st2 EXCEPT !.sections = ReconstructSections(st2)]
  IN IF SyncStops(opts) THEN [outcome |-> "dryRun", saved |-> FALSE, doc |-> st]
     ELSE IF ReconstructSectionsThrows(st2) THEN [outcome |-> "threw", saved |-> FALSE, doc |-> st]
     ELSE IF changed THEN [outcome |-> "ok", saved |-> TRUE, doc |-> st3]
     ELSE IF st3.components # st.components \/ st3.sections # st.sections
          THEN [outcome |-> "ok", saved |-> TRUE, doc |-> st3]
     ELSE [outcome |-> "ok", saved |-> FALSE, doc |-> st]

SyncOptions == [dryRun : BOOLEAN, force : BOOLEAN, includeAll : BOOLEAN]

\* syncCommand(options), the limit-th run at most
SyncRun(opts, limit) ==
  LET st == ParseState(stateFile)
      r == SyncResult(st, disk, opts)
  IN /\ ~crashed /\ Idle /\ used.runs < limit
     /\ stateFile' = IF r.saved THEN FileText(r.doc, TRUE) ELSE stateFile
     /\ cmd' = [op |-> "sync", pc |-> "done", outcome |-> r.outcome, opts |-> opts,
                pre |-> st, preFile |-> stateFile, preDisk |-> disk, saved |-> r.saved]
     /\ used' = [used EXCEPT !.runs = @ + 1]
     /\ UNCHANGED <<tmpFiles, saves, saveQueue, crashed, lastRead, tasks, disk, config>>

Sync(opts) == SyncRun(opts, MaxRuns)

(***************************************************************************)
(* pruneMissingCommand(options).  confirmed: the prompt was skipped (--yes, *)
(* no TTY) or answered with yes.                                           *)
(***************************************************************************)
\* the entries prune deletes
PruneTargets(st, dsk) == GetProjectStatus(config, st, dsk).missing

PruneResult(st, dsk, opts) ==
  LET missing == PruneTargets(st, dsk)
      st1 == [st EXCEPT !.files = DelFiles(@, missing)]
      st2 == [st1 EXCEPT !.components = ReconstructComponents(st1.files)]
      st3 == [st2 EXCEPT !.sections = ReconstructSections(st2)]
  IN IF Len(GetProjectStatus(config, st, dsk).missing) = 0
     THEN [outcome |-> "nothing", saved |-> FALSE, doc |-> st]
     ELSE IF opts.dryRun THEN [outcome |-> "dryRun", saved |-> FALSE, doc |-> st]
     ELSE IF ~opts.confirmed THEN [outcome |-> "aborted", saved |-> FALSE, doc |-> st]
     ELSE IF ReconstructSectionsThrows(st2) THEN [outcome |-> "threw", saved |-> FALSE, doc |-> st]
     ELSE [outcome |-> "ok", saved |-> TRUE, doc |-> st3]

PruneOptions == [dryRun : BOOLEAN, confirmed : BOOLEAN]

PruneMissing(opts) ==
  LET st == ParseState(stateFile)
      r == PruneResult(st, disk, opts)
  IN /\ CanReconcile
     /\ stateFile' = IF r.saved THEN FileText(r.doc, TRUE) ELSE stateFile
     /\ cmd' = [op |-> "prune", pc |-> "done", outcome |-> r.outcome, opts |-> opts,
                pre |-> st, preFile |-> stateFile, preDisk |-> disk, saved |-> r.saved]
     /\ used' = [used EXCEPT !.runs = @ + 1]
     /\ UNCHANGED <<tmpFiles, saves, saveQueue, crashed, lastRead, tasks, disk, config>>

(***************************************************************************)
(* The project: an empty project with its configuration, then commands one  *)
(* at a time and changes made by hand in between.                          *)
(***************************************************************************)
Configs == [normalization : Normalizations, formatting : {"none", "prettier"}]

\* the places where files are created by hand: one under each managed root
HandPaths == {PageB, FeatB, CompK}

Routes == {RouteA, RouteB, Null}
Features == {<<"a">>, <<"b">>}

Init ==
  /\ stateFile = Absent
  /\ tmpFiles = [j \in 1..MaxSaves |-> Absent]
  /\ saves = <<>>
  /\ saveQueue = 0
  /\ crashed = FALSE
  /\ lastRead = Absent
  /\ tasks = <<>>
  /\ disk = NoDisk
  /\ config \in {c \in Configs : c.formatting = "none"}
  /\ cmd = NoCmd
  /\ used = NoneUsed

Next ==
  \/ \E r \in Routes, f \in Features, how \in FormatOutcomes : AddSection(r, f, how)
  \/ \E how \in FormatOutcomes : CreateComponent(how)
  \/ \E q \in Paths, k \in BOOLEAN : UserEdit(q, k)
  \/ \E q \in Paths : UserConvertEOL(q)
  \/ \E q \in Paths : UserDelete(q)
  \/ \E q \in HandPaths, k \in BOOLEAN : UserCreate(q, k)
  \/ \E o \in SyncOptions : Sync(o)
  \/ \E o \in PruneOptions : PruneMissing(o)

Spec == Init /\ [][Next]_vars

(***************************************************************************)
(* Properties of the reconciler (status, sync, prune) under Spec.          *)
(***************************************************************************)
Ledger == ParseState(stateFile)

HashOnDisk(dsk, q) == CalculateHash(dsk[q], config.normalization)

NoDuplicates(sq) == \A i, j \in 1..Len(sq) : sq[i] = sq[j] => i = j

\* Claim C7: getProjectStatus partitions the ledger's file keys and the files
\* found under the managed roots: the four lists name each path at most once
\* and share no path, every listed path is a ledger key or a scanned file, and
\* the paths left unlisted are exactly the synced ones, which the synced
\* counter counts.
C7_StatusPartition ==
  LET r == GetProjectStatus(config, Ledger, disk)
      keys == SeqToSet(KeySeq(Ledger.files))
      all == keys \cup SeqToSet(ScanManaged(disk))
      listed == r.missing \o r.modified \o r.untracked \o r.orphaned
      unlisted == all \ SeqToSet(listed)
  IN /\ NoDuplicates(listed)
     /\ SeqToSet(listed) \subseteq all
     /\ r.synced = Cardinality(unlisted)
     /\ \A q \in unlisted :
          q \in keys /\ Exists(disk, q) /\ HashOnDisk(disk, q) = GetFile(Ledger.files, q).hash
     /\ \A q \in SeqToSet(r.missing) : q \in keys /\ ~Exists(disk, q)
     /\ \A q \in SeqToSet(r.modified) :
          q \in keys /\ Exists(disk, q) /\ HashOnDisk(disk, q) # GetFile(Ledger.files, q).hash
     /\ \A q \in SeqToSet(r.untracked) : q \notin keys /\ Exists(disk, q) /\ disk[q].sig
     /\ \A q \in SeqToSet(r.orphaned) : q \notin keys /\ Exists(disk, q) /\ ~disk[q].sig

\* a project with synced files, a modified file and a file that is not tracked
C7_Witness ==
  LET r == GetProjectStatus(config, Ledger, disk)
  IN /\ r.synced > 0
     /\ Len(r.modified) > 0
     /\ Len(r.untracked) + Len(r.orphaned) > 0

SyncCompleted == cmd.op = "sync" /\ cmd.outcome = "ok" /\ ~cmd.opts.dryRun

\* the tracked files that a status before the sync lists as modified
ModifiedBefore(q) ==
  /\ HasFile(cmd.pre.files, q)
  /\ Exists(cmd.preDisk, q)
  /\ HashOnDisk(cmd.preDisk, q) # GetFile(cmd.pre.files, q).hash

NowSynced(q) ==
  /\ HasFile(Ledger.files, q)
  /\ GetFile(Ledger.files, q).hash = HashOnDisk(disk, q)
  /\ q \notin SeqToSet(GetProjectStatus(config, Ledger, disk).modified)

\* Claim C8 as stated: after a sync that is no dry run completes, every tracked
\* file that was on disk with a hash other than its ledger hash has the hash of
\* its disk content in the ledger and is no longer listed as modified.
C8_EveryModifiedUpdated ==
  (cmd.op = "sync" /\ SyncCompleted) =>
    \A q \in Paths : ModifiedBefore(q) => NowSynced(q)

\* Claim C8, amended: after a sync that is no dry run completes, every tracked
\* file that was on disk with a hash other than its ledger hash, and that
\* carries a configured signature or was synced with the force option, has the
\* hash of its disk content in the ledger and is no longer listed as modified;
\* a modified file without signature keeps its ledger hash unless force is set.
C8_SyncUpdatesModified ==
  (cmd.op = "sync" /\ SyncCompleted) =>
    \A q \in Paths :
      ModifiedBefore(q) =>
        IF cmd.preDisk[q].sig \/ cmd.opts.force
        THEN NowSynced(q)
        ELSE /\ HasFile(Ledger.files, q)
             /\ GetFile(Ledger.files, q) = GetFile(cmd.pre.files, q)

\* a sync without force has updated the hash of a modified file with signature
C8_Witness ==
  /\ cmd.op = "sync" /\ SyncCompleted
  /\ ~cmd.opts.force
  /\ \E q \in Paths : ModifiedBefore(q) /\ cmd.preDisk[q].sig /\ NowSynced(q)

NotTrackedBefore(q) ==
  /\ Exists(cmd.preDisk, q)
  /\ ~HasFile(cmd.pre.files, q)

AddedBySync(q) ==
  /\ HasFile(Ledger.files, q)
  /\ GetFile(Ledger.files, q).hash = HashOnDisk(disk, q)

\* Claim C9: a file under a managed root without ledger entry is listed as
\* untracked when it carries a signature, and a sync that is no dry run then
\* adds an entry with the hash of its content, with or without includeAll;
\* without signature it is listed as orphaned and the sync adds it exactly
\* when includeAll is set.
C9_UntrackedAndOrphaned ==
  (cmd.op = "sync" /\ ~cmd.opts.dryRun) =>
    LET r == GetProjectStatus(config, cmd.pre, cmd.preDisk)
    IN \A q \in Paths :
         NotTrackedBefore(q) =>
           IF cmd.preDisk[q].sig
           THEN q \in SeqToSet(r.untracked) /\ AddedBySync(q)
           ELSE /\ q \in SeqToSet(r.orphaned)
                /\ (IF cmd.opts.includeAll THEN AddedBySync(q) ELSE ~HasFile(Ledger.files, q))

\* the same law for the syncs that complete
C9_WhenSyncCompletes ==
  (cmd.op = "sync" /\ SyncCompleted) =>
    LET r == GetProjectStatus(config, cmd.pre, cmd.preDisk)
    IN \A q \in Paths :
         NotTrackedBefore(q) =>
           IF cmd.preDisk[q].sig
           THEN q \in SeqToSet(r.untracked) /\ AddedBySync(q)
           ELSE /\ q \in SeqToSet(r.orphaned)
                /\ (IF cmd.opts.includeAll THEN AddedBySync(q) ELSE ~HasFile(Ledger.files, q))

PruneRan == cmd.op = "prune" /\ ~cmd.opts.dryRun /\ cmd.opts.confirmed

\* Claim C10: after a prune that is no dry run and is confirmed, the ledger's
\* file map is the previous one without the entries whose file is absent from
\* disk, the entries of present files keep their place and record, and the
\* disk is as it was.
C10_PruneOnlyMissing ==
  (cmd.op = "prune" /\ PruneRan) =>
    /\ Ledger.files = SelectSeq(cmd.pre.files, LAMBDA e : Exists(cmd.preDisk, e.path))
    /\ disk = cmd.preDisk

\* the same law for the prunes that complete
C10_WhenPruneCompletes ==
  (cmd.op = "prune" /\ PruneRan /\ cmd.outcome # "threw") =>
    /\ Ledger.files = SelectSeq(cmd.pre.files, LAMBDA e : Exists(cmd.preDisk, e.path))
    /\ disk = cmd.preDisk

(***************************************************************************)
(* Safe file operations (utils/filesystem.js).  A result carries the disk   *)
(* the operation leaves.                                                   *)
(***************************************************************************)
\* an option or field that is undefined where a hash is expected
NoHash == [undefined |-> TRUE]

Refused(dsk, why) == [deleted |-> FALSE, message |-> why, disk |-> dsk]

\* owner and actualOwner are both given and differ
ForeignOwner(owner, actualOwner) == owner # Null /\ actualOwner # Null /\ owner # actualOwner

\* the conflict check of safeDelete and safeMove on an existing file:
\* "ok" or the reason of the refusal
ConflictCheck(dsk, q, o) ==
  IF o.force THEN "ok"
  ELSE IF ForeignOwner(o.owner, o.actualOwner) THEN "owned by a different entity"
  ELSE IF o.expectedHash # NoHash
       THEN IF CalculateHash(dsk[q], o.normalization) = o.expectedHash \/ o.acceptChanges
            THEN "ok"
            ELSE "content changed since last generation"
  ELSE IF dsk[q].sig THEN "ok"
  ELSE "not generated"

\* safeDelete(path, {force, expectedHash, acceptChanges, normalization, owner, actualOwner})
SafeDelete(dsk, q, o) ==
  IF ~Exists(dsk, q) THEN Refused(dsk, "nothing to delete")
  ELSE IF ConflictCheck(dsk, q, o) = "ok"
       THEN [deleted |-> TRUE, message |-> "", disk |-> [dsk EXCEPT ![q] = Absent]]
       ELSE Refused(dsk, ConflictCheck(dsk, q, o))

FilesUnder(dsk, dir) == {q \in DOMAIN dsk : Exists(dsk, q) /\ UnderRoot(q, dir)}

\* safeDeleteDir(dir, {force, stateFiles, acceptChanges, normalization, owner}):
\* one refused or untracked file keeps the whole directory
SafeDeleteDir(dsk, dir, o) ==
  LET inside == FilesUnder(dsk, dir)
      fileOpts(q) == [force |-> FALSE, expectedHash |-> GetFile(o.stateFiles, q).hash,
                      acceptChanges |-> o.acceptChanges, normalization |-> o.normalization,
                      owner |-> o.owner, actualOwner |-> GetFile(o.stateFiles, q).owner]
      blocked(q) == IF HasFile(o.stateFiles, q)
                    THEN ConflictCheck(dsk, q, fileOpts(q)) # "ok"
                    ELSE TRUE
  IN IF inside = {} THEN Refused(dsk, "nothing to delete")
     ELSE IF o.force \/ \A q \in inside : ~blocked(q)
          THEN [deleted |-> TRUE, message |-> "",
                disk |-> [q \in DOMAIN dsk |-> IF q \in inside THEN Absent ELSE dsk[q]]]
          ELSE Refused(dsk, "directory holds changed or foreign files")

(***************************************************************************)
(* removeSectionCommand(route, undefined, options), in its steps: the       *)
(* lookup, the route file, the feature directory, the save.                *)
(***************************************************************************)
HasSection(st, id) ==
  \E i \in 1..Len(st.sections) :
    st.sections[i].route = id \/ st.sections[i].name = id \/ st.sections[i].featurePath = id

\* findSection(state, identifier): the first section it matches
FindSection(st, id) ==
  st.sections[CHOOSE i \in 1..Len(st.sections) :
    /\ st.sections[i].route = id \/ st.sections[i].name = id \/ st.sections[i].featurePath = id
    /\ \A j \in 1..(i - 1) :
         ~(st.sections[j].route = id \/ st.sections[j].name = id \/ st.sections[j].featurePath = id)]

IsRouteOf(e, route) ==
  IF "owner" \in DOMAIN e.rec THEN e.rec.kind = "route" /\ e.rec.owner = route ELSE FALSE

\* the route file: the ledger's route entry owned by the route, or the computed path
RouteFileFor(st, route) ==
  IF \E i \in 1..Len(st.files) : IsRouteOf(st.files[i], route)
  THEN st.files[CHOOSE i \in 1..Len(st.files) :
         /\ IsRouteOf(st.files[i], route)
         /\ \A j \in 1..(i - 1) : ~IsRouteOf(st.files[j], route)].path
  ELSE RouteFileOf(route)

OwnerOf(files, q) ==
  IF HasFile(files, q)
  THEN (IF "owner" \in DOMAIN GetFile(files, q) THEN GetFile(files, q).owner ELSE Null)
  ELSE Null

HashOf(files, q) == IF HasFile(files, q) THEN GetFile(files, q).hash ELSE NoHash

RemoveOptions == [force : BOOLEAN, acceptChanges : BOOLEAN]

Pending == [deleted |-> FALSE, message |-> "pending"]

InStep(op, pc) == ~crashed /\ cmd.op = op /\ cmd.pc = pc

RemoveStart(route, opts) ==
  LET st == ParseState(stateFile)
      found == HasSection(st, route)
      section == FindSection(st, route)
  IN /\ CanRun
     /\ route # Null
     /\ cmd' = IF ~found
               THEN [op |-> "removeSection", pc |-> "done", outcome |-> "threw"]
               ELSE [op |-> "removeSection", pc |-> "route", outcome |-> "running",
                     opts |-> opts, route |-> section.route, pre |-> st, preDisk |-> disk,
                     mem |-> st, routeFile |-> RouteFileFor(st, section.route),
                     featureDir |-> FeatureDirOf(section.featurePath),
                     routeResult |-> Pending, dirResult |-> Pending]
     /\ found => section.route # Null
     /\ used' = [used EXCEPT !.cmds = @ + 1]
     /\ UNCHANGED <<stateFile, tmpFiles, saves, saveQueue, crashed, lastRead, tasks, disk, config>>

\* the ledger after the route file's safeDelete, were the result not looked at
RouteEntryDropped(files, q, result) == DelFile(files, q)

\* if (result.deleted) delete state.files[normalizedPath]
RouteEntryAfter(files, q, result) == IF result.deleted THEN DelFile(files, q) ELSE files

RemoveRoute ==
  LET q == cmd.routeFile
      r == SafeDelete(disk, q, [force |-> cmd.opts.force,
                                expectedHash |-> HashOf(cmd.mem.files, q),
                                acceptChanges |-> cmd.opts.acceptChanges,
                                normalization |-> config.normalization,
                                owner |-> cmd.route,
                                actualOwner |-> OwnerOf(cmd.mem.files, q)])
  IN /\ InStep("removeSection", "route")
     /\ disk' = r.disk
     /\ cmd' = [cmd EXCEPT !.pc = "dir",
                           !.routeResult = [deleted |-> r.deleted, message |-> r.message],
                           !.mem.files = RouteEntryAfter(@, q, r)]
     /\ UNCHANGED <<stateFile, tmpFiles, saves, saveQueue, crashed, lastRead, tasks, config, used>>

RemoveDir ==
  LET dir == cmd.featureDir
      r == SafeDeleteDir(disk, dir, [force |-> cmd.opts.force,
                                     stateFiles |-> cmd.mem.files,
                                     acceptChanges |-> cmd.opts.acceptChanges,
                                     normalization |-> config.normalization,
                                     owner |-> cmd.route])
  IN /\ InStep("removeSection", "dir")
     /\ disk' = r.disk
     /\ cmd' = [cmd EXCEPT !.pc = "save",
                           !.dirResult = [deleted |-> r.deleted, message |-> r.message],
                           !.mem.files = IF r.deleted
                                         THEN SelectSeq(@, LAMBDA e : ~UnderRoot(e.path, dir))
                                         ELSE @]
     /\ UNCHANGED <<stateFile, tmpFiles, saves, saveQueue, crashed, lastRead, tasks, config, used>>

\* the routes of the model have one segment: nothing is flattened
RemoveSave ==
  LET st == [cmd.mem EXCEPT !.sections = SelectSeq(@, LAMBDA x : x.route # cmd.route)]
  IN /\ InStep("removeSection", "save")
     /\ stateFile' = FileText(st, TRUE)
     /\ cmd' = [cmd EXCEPT !.pc = "done", !.outcome = "ok"]
     /\ UNCHANGED <<tmpFiles, saves, saveQueue, crashed, lastRead, tasks, disk, config, used>>

(***************************************************************************)
(* moveSectionCommand(fromRoute, toRoute, undefined, undefined, options),   *)
(* in its steps: the lookup, the route file, the feature directory, the     *)
(* save.                                                                   *)
(***************************************************************************)
\* the value safeMove returns in place of a hash when it refuses
SkipValue(why) == [skipped |-> TRUE, reason |-> why]

\* safeMove(from, to, {force, expectedHash, acceptChanges, normalization,
\* owner, actualOwner}): the conflict check on the source, then the
\* destination, then the rename; the hash of the moved content is returned
SafeMove(dsk, from, to, o) ==
  IF ~Exists(dsk, from) THEN [kind |-> "skip", hash |-> SkipValue("nothing to move"), disk |-> dsk]
  ELSE IF ConflictCheck(dsk, from, o) # "ok"
       THEN [kind |-> "skip", hash |-> SkipValue(ConflictCheck(dsk, from, o)), disk |-> dsk]
  ELSE IF Exists(dsk, to) /\ ~o.force /\ to # from
       THEN [kind |-> "destExists", hash |-> NoHash, disk |-> dsk]
  ELSE [kind |-> "moved",
        hash |-> CalculateHash(dsk[from], o.normalization),
        disk |-> IF to = from THEN dsk
                 ELSE [dsk EXCEPT ![to] = dsk[from], ![from] = Absent]]

\* content.replace(fromName, toName) on the identifiers of a file
RenameIn(content, fromName, toName) ==
  [content EXCEPT !.names = IF fromName \in @ THEN (@ \ {fromName}) \cup {toName} ELSE @]

\* state.files[to] = {...rec, hash}; delete state.files[from]
MoveEntry(files, from, to, hash) ==
  IF HasFile(files, from)
  THEN LET moved == SetFile(files, to, [GetFile(files, from) EXCEPT !.hash = hash])
       IN IF to = from THEN moved ELSE DelFile(moved, from)
  ELSE files

MoveOptions == [force : BOOLEAN, acceptChanges : BOOLEAN]

\* the destination feature derived from the new route
DerivedToFeature(fromRoute, toRoute, fromFeature) ==
  IF fromFeature = Null THEN Null
  ELSE IF fromRoute # toRoute /\ Slice(fromRoute, 1) = fromFeature THEN Slice(toRoute, 1)
  ELSE fromFeature

MoveStart(fromRoute, toRoute, opts) ==
  LET st == ParseState(stateFile)
      found == HasSection(st, fromRoute)
      fromFeature == IF found THEN FindSection(st, fromRoute).featurePath ELSE Null
  IN /\ CanRun
     /\ fromRoute # Null /\ toRoute # Null /\ fromRoute # toRoute
     /\ cmd' = [op |-> "moveSection", pc |-> "route", outcome |-> "running", opts |-> opts,
                fromRoute |-> fromRoute, toRoute |-> toRoute,
                fromFeature |-> fromFeature,
                toFeature |-> DerivedToFeature(fromRoute, toRoute, fromFeature),
                hasSection |-> found,
                pre |-> st, preDisk |-> disk, mem |-> st, moved |-> 0]
     /\ used' = [used EXCEPT !.cmds = @ + 1]
     /\ UNCHANGED <<stateFile, tmpFiles, saves, saveQueue, crashed, lastRead, tasks, disk, config>>


\* if (changed): state.files[to].hash = calculateHash(content, normalization)
RouteRewrite(files, q, content) ==
  IF HasFile(files, q)
  THEN SetFile(files, q, [GetFile(files, q) EXCEPT !.hash = CalculateHash(content, config.normalization)])
  ELSE files

\* fallback: the normalization safeMove applies when the caller passes none
MoveRoute(fallback) ==
  LET from == RouteFileOf(cmd.fromRoute)
      to == RouteFileOf(cmd.toRoute)
      r == SafeMove(disk, from, to, [force |-> cmd.opts.force,
                                     expectedHash |-> HashOf(cmd.mem.files, from),
                                     acceptChanges |-> cmd.opts.acceptChanges,
                                     normalization |-> fallback,
                                     owner |-> cmd.fromRoute,
                                     actualOwner |-> OwnerOf(cmd.mem.files, from)])
      files1 == MoveEntry(cmd.mem.files, from, to, r.hash)
      fromName == FeatureComponentName(cmd.fromFeature)
      toName == FeatureComponentName(cmd.toFeature)
      rewrite == cmd.toFeature # Null /\ Exists(r.disk, to)
      changed == rewrite /\ (fromName # toName \/ fromName \in r.disk[to].names)
      content == RenameIn(r.disk[to], fromName, toName)
  IN /\ InStep("moveSection", "route")
     /\ IF r.kind = "destExists"
        THEN /\ disk' = disk
             /\ cmd' = [cmd EXCEPT !.pc = "done", !.outcome = "threw"]
        ELSE /\ disk' = IF changed THEN [r.disk EXCEPT ![to] = content] ELSE r.disk
             /\ cmd' = [cmd EXCEPT !.pc = "dir", !.moved = 1,
                                   !.mem.files = IF changed THEN RouteRewrite(files1, to, content)
                                                 ELSE files1]
     /\ UNCHANGED <<stateFile, tmpFiles, saves, saveQueue, crashed, lastRead, tasks, config, used>>

\* moveDirectory(from, to, state, config, options) on a feature directory of
\* one file: "threw", or the disk and the ledger files it leaves
MoveDirectory(dsk, files, fromFeature, toFeature, opts, owner) ==
  LET from == FeatureFileOf(fromFeature)
      to == FeatureFileOf(toFeature)
      fromName == FeatureComponentName(fromFeature)
      toName == FeatureComponentName(toFeature)
      r == SafeMove(dsk, from, to, [force |-> opts.force,
                                    expectedHash |-> HashOf(files, from),
                                    acceptChanges |-> opts.acceptChanges,
                                    normalization |-> config.normalization,
                                    owner |-> owner,
                                    actualOwner |-> OwnerOf(files, from)])
      hasChanged == fromName \in r.disk[to].names
      content == RenameIn(r.disk[to], fromName, toName)
  IN IF FilesUnder(dsk, FeatureDirOf(toFeature)) # {} /\ ~opts.force
     THEN [threw |-> TRUE, disk |-> dsk, files |-> files]
     ELSE IF r.kind # "moved"
          THEN [threw |-> TRUE, disk |-> r.disk, files |-> files]
     ELSE IF hasChanged
          THEN [threw |-> FALSE, disk |-> [r.disk EXCEPT ![to] = content],
                files |-> MoveEntry(files, from, to, CalculateHash(content, config.normalization))]
     ELSE [threw |-> FALSE, disk |-> r.disk, files |-> MoveEntry(files, from, to, r.hash)]

MoveDir ==
  LET moves == /\ cmd.fromFeature # Null
               /\ cmd.toFeature # Null
               /\ cmd.fromFeature # cmd.toFeature
               /\ FilesUnder(disk, FeatureDirOf(cmd.fromFeature)) # {}
      r == MoveDirectory(disk, cmd.mem.files, cmd.fromFeature, cmd.toFeature, cmd.opts, cmd.fromRoute)
  IN /\ InStep("moveSection", "dir")
     /\ IF ~moves
        THEN /\ disk' = disk
             /\ cmd' = [cmd EXCEPT !.pc = "save"]
        ELSE /\ disk' = r.disk
             /\ cmd' = IF r.threw THEN [cmd EXCEPT !.pc = "done", !.outcome = "threw"]
                       ELSE [cmd EXCEPT !.pc = "save", !.mem.files = r.files]
     /\ UNCHANGED <<stateFile, tmpFiles, saves, saveQueue, crashed, lastRead, tasks, config, used>>

\* state.files[f].owner = normalizedToRoute for the files of the moved route
Reown(files, fromRoute, toRoute) ==
  [i \in 1..Len(files) |->
     IF OwnerOf(files, files[i].path) = fromRoute
     THEN [files[i] EXCEPT !.rec.owner = toRoute]
     ELSE files[i]]

\* the section record pushed after a move; a field the old record lacks is
\* undefined and is not written
MovedSection(existing, toRoute, toFeature) ==
  LET base == [name |-> existing.name, route |-> toRoute, featurePath |-> toFeature,
               extension |-> existing.extension]
  IN IF "layout" \in DOMAIN existing THEN RecSet(base, "layout", existing.layout) ELSE base

\* without a section and so without a feature the section's name cannot be
\* computed: toPascalCase(null) raises and nothing is saved
MoveSave ==
  LET existing == FindSection(cmd.pre, cmd.fromRoute)
      st == [cmd.mem EXCEPT
               !.files = Reown(@, cmd.fromRoute, cmd.toRoute),
               !.sections = Append(SelectSeq(@, LAMBDA x : x.route # cmd.fromRoute),
                                   MovedSection(existing, cmd.toRoute, cmd.toFeature))]
  IN /\ InStep("moveSection", "save")
     /\ IF cmd.hasSection
        THEN /\ stateFile' = FileText(st, TRUE)
             /\ cmd' = [cmd EXCEPT !.pc = "done", !.outcome = "ok"]
        ELSE /\ stateFile' = stateFile
             /\ cmd' = [cmd EXCEPT !.pc = "done", !.outcome = "threw"]
     /\ UNCHANGED <<tmpFiles, saves, saveQueue, crashed, lastRead, tasks, disk, config, used>>

\* the process stops in the middle of a command
CommandCrash ==
  /\ ~crashed
  /\ cmd.op \in {"removeSection", "moveSection"}
  /\ cmd.pc # "done"
  /\ crashed' = TRUE
  /\ UNCHANGED <<stateFile, tmpFiles, saves, saveQueue, lastRead, tasks, disk, config, cmd, used>>

InitChange ==
  /\ stateFile = Absent
  /\ tmpFiles = [j \in 1..MaxSaves |-> Absent]
  /\ saves = <<>>
  /\ saveQueue = 0
  /\ crashed = FALSE
  /\ lastRead = Absent
  /\ tasks = <<>>
  /\ disk = NoDisk
  /\ config \in Configs
  /\ cmd = NoCmd
  /\ used = NoneUsed

NextChange ==
  \/ \E r \in Routes, f \in Features, how \in FormatOutcomes : AddSection(r, f, how)
  \/ \E how \in FormatOutcomes : CreateComponent(how)
  \/ \E q \in Paths, k \in BOOLEAN : UserEdit(q, k)
  \/ \E q \in Paths : UserConvertEOL(q)
  \/ \E r \in Routes, o \in RemoveOptions : RemoveStart(r, o)
  \/ RemoveRoute
  \/ RemoveDir
  \/ RemoveSave
  \/ \E r \in Routes, t \in Routes, o \in MoveOptions : MoveStart(r, t, o)
  \/ \E n \in Normalizations : MoveRoute(n)
  \/ MoveDir
  \/ MoveSave
  \/ CommandCrash

SpecChange == InitChange /\ [][NextChange]_vars

(***************************************************************************)
(* Properties of the commands that change files, under SpecChange.         *)
(***************************************************************************)
\* removeSection has passed its route step, and the route file was tracked
\* and on disk with a hash other than its ledger hash
RouteConflict ==
  IF cmd.op = "removeSection" /\ cmd.outcome # "threw"
  THEN /\ cmd.pc \in {"dir", "save", "done"}
       /\ HasFile(cmd.pre.files, cmd.routeFile)
       /\ Exists(cmd.preDisk, cmd.routeFile)
       /\ HashOnDisk(cmd.preDisk, cmd.routeFile) # GetFile(cmd.pre.files, cmd.routeFile).hash
  ELSE FALSE

C5_NeverOverReports ==
  \A i \in 1..Len(Ledger.files) : Exists(disk, Ledger.files[i].path)

\* Claim C6: after a successful addSection, createComponent or moveSection,
\* with no edit made outside the tool, every ledger entry's hash is the hash,
\* under the configured normalization, of the content on disk at its path,
\* and getProjectStatus lists no modified file.
C6_HashInvariant ==
  (/\ used.edits = 0
   /\ cmd.op \in {"addSection", "createComponent", "moveSection"}
   /\ cmd.pc = "done"
   /\ cmd.outcome = "ok") =>
    /\ \A i \in 1..Len(Ledger.files) :
         /\ Exists(disk, Ledger.files[i].path)
         /\ Ledger.files[i].rec.hash = HashOnDisk(disk, Ledger.files[i].path)
    /\ GetProjectStatus(config, Ledger, disk).modified = <<>>

\* the same invariant for the projects that configure no formatter
C6_WithoutFormatter ==
  config.formatting = "none" => C6_HashInvariant

(***************************************************************************)
(* Prune and the derived records.                                          *)
(***************************************************************************)
\* the feature directory of a section record: featurePath is relative to the
\* features root when addSection wrote it, project-relative when the
\* reconstruction did
SectionFeatureDir(sec) ==
  IF StartsWith(sec.featurePath, featuresRoot \o SLASH) THEN sec.featurePath
  ELSE FeatureDirOf(sec.featurePath)

\* the ledger keys that belong to a section: its route file and the files of
\* its feature directory
SectionFiles(files, sec) ==
  {q \in Keys(files) :
     \/ UnderRoot(q, SectionFeatureDir(sec))
     \/ (IF sec.route = Null THEN FALSE ELSE q = RouteFileOf(sec.route))}

\* the ledger keys that belong to a component: the files of its directory
ComponentFiles(files, comp) ==
  {q \in Keys(files) : UnderRoot(q, componentsRoot \o SLASH \o comp.name)}

RemovedByHand == {q \in Keys(cmd.pre.files) : ~Exists(cmd.preDisk, q)}

NothingLeftOfRemoved ==
  /\ \A q \in RemovedByHand : ~HasFile(Ledger.files, q)
  /\ \A i \in 1..Len(Ledger.sections) :
       LET own == SectionFiles(cmd.pre.files, Ledger.sections[i])
       IN ~(own # {} /\ own \subseteq RemovedByHand)
  /\ \A i \in 1..Len(Ledger.components) :
       LET own == ComponentFiles(cmd.pre.files, Ledger.components[i])
       IN ~(own # {} /\ own \subseteq RemovedByHand)

\* Claim C11: after tracked files were deleted by hand and prune has run (no
\* dry run, confirmed), the ledger has no file entry for a deleted file and
\* lists no section and no component all of whose tracked files were deleted.
C11_PruneHealsRecords ==
  (cmd.op = "prune" /\ PruneRan) => NothingLeftOfRemoved

\* the same law for the prunes that complete
C11_WhenPruneCompletes ==
  (cmd.op = "prune" /\ PruneRan /\ cmd.outcome # "threw") => NothingLeftOfRemoved

(***************************************************************************)
(* Dry runs.                                                               *)
(***************************************************************************)
\* Claim C12: a sync or a prune with dryRun leaves the ledger file exactly as
\* it was before the command, whatever is missing, modified or untracked,
\* and leaves every file on disk as it was.
C12_DryRunChangesNothing ==
  (IF cmd.op \in {"sync", "prune"} THEN cmd.opts.dryRun ELSE FALSE) =>
    /\ stateFile = cmd.preFile
    /\ disk = cmd.preDisk

\* a dry run of sync on a project that has a missing file and a modified file
\* that carries its signature
C12_Witness ==
  /\ (IF cmd.op = "sync" THEN cmd.opts.dryRun ELSE FALSE)
  /\ Len(SyncMissing(cmd.pre, cmd.preDisk)) > 0
  /\ Len(SyncUpdated(cmd.pre, cmd.preDisk, cmd.opts)) > 0

(***************************************************************************)
(* The path guard, and the commands that resolve a path from their          *)
(* arguments or from the ledger before they touch the disk.                 *)
(***************************************************************************)
UP == <<".", ".">>

\* the segments of a path without its empty and "." segments, each "seg/.."
\* taken out; the ".." that lead out of the starting directory are kept
RECURSIVE NormSegs(_, _)
NormSegs(segs, acc) ==
  IF segs = <<>> THEN acc
  ELSE IF Head(segs) = <<>> \/ Head(segs) = DOT THEN NormSegs(Tail(segs), acc)
  ELSE IF Head(segs) = UP /\ Len(acc) > 0 /\ acc[Len(acc)] # UP
       THEN NormSegs(Tail(segs), SubSeq(acc, 1, Len(acc) - 1))
  ELSE NormSegs(Tail(segs), Append(acc, Head(segs)))

RECURSIVE JoinSegs(_)
JoinSegs(segs) ==
  IF segs = <<>> THEN <<>>
  ELSE IF Len(segs) = 1 THEN segs[1]
  ELSE segs[1] \o SLASH \o JoinSegs(Tail(segs))

\* path.resolve(process.cwd(), p), written relative to the project
PathResolve(p) == JoinSegs(NormSegs(Split(RelPath(p)), <<>>))

\* secureJoin(root, segment): the resolved path, refused (ok FALSE, the
\* path-traversal error) when it is not a descendant of the root
SecureJoin(root, segment) ==
  LET resolved == PathResolve(root \o SLASH \o segment)
  IN [ok |-> UnderRoot(resolved, root), path |-> resolved]

\* path.join(root, segment) with no check
PlainJoin(root, segment) == [ok |-> TRUE, path |-> PathResolve(root \o SLASH \o segment)]

UnguardedPagesJoin(segment) == PlainJoin(pagesRoot, segment)

\* secureJoin(pagesRoot, routeDirName) and secureJoin(pagesRoot, routeFileName)
PagesJoin(segment) == SecureJoin(pagesRoot, segment)

\* secureJoin(featuresRoot, normalizedFeaturePath)
FeaturesJoin(feat) == SecureJoin(featuresRoot, feat)

\* a route and a feature path that lead out of the roots, and places outside
\* the managed roots
TravRoute == <<"/", ".", ".", "/", "t">>
TravFeat == <<".", ".", "/", "g">>
TravComp == <<".", ".", "/", "x">>
OutT == <<"t">> \o AstroExt
OutDir == <<"x">>
OutX == <<"x", "/", "X">> \o AstroExt
OutsidePaths == {OutT, OutX}
GuardPaths == Paths \cup OutsidePaths
GuardRoutes == {RouteA, TravRoute, Null}
GuardFeatures == {<<"a">>, TravFeat}

\* addSectionCommand(route, featurePath, {}): the paths are resolved through
\* the guard before anything is read or written
AddSectionCommand(route, feat, how) ==
  LET dirJoin == PagesJoin(Slice(route, 1))
      fileJoin == PagesJoin(Slice(route, 1) \o AstroExt)
      featJoin == FeaturesJoin(feat)
      refused == IF route = Null THEN ~featJoin.ok
                 ELSE ~dirJoin.ok \/ ~fileJoin.ok \/ ~featJoin.ok
  IN IF refused
     THEN /\ CanRun
          /\ cmd' = [op |-> "addSection", pc |-> "done", outcome |-> "traversal",
                     route |-> route, feat |-> feat]
          /\ used' = [used EXCEPT !.cmds = @ + 1]
          /\ UNCHANGED <<stateFile, tmpFiles, saves, saveQueue, crashed, lastRead, tasks,
                         disk, config>>
     ELSE AddSectionAt(route, feat, how, fileJoin.path,
                       featJoin.path \o SLASH \o FeatureComponentName(feat) \o AstroExt)

HasComponent(st, name) == \E i \in 1..Len(st.components) : st.components[i].name = name

\* findComponent(state, name)
FindComponent(st, name) ==
  st.components[CHOOSE i \in 1..Len(st.components) :
    /\ st.components[i].name = name
    /\ \A j \in 1..(i - 1) : st.components[j].name # name]

\* the directory removeComponent deletes: the recorded path of the component,
\* or the identifier joined to the components root
ComponentDirFor(st, identifier) ==
  IF HasComponent(st, identifier)
  THEN [ok |-> TRUE, path |-> PathResolve(FindComponent(st, identifier).path)]
  ELSE SecureJoin(componentsRoot, identifier)

\* the ledger after the directory's safeDeleteDir, were the result not looked at
ComponentDropped(st, dir, identifier, result) ==
  [st EXCEPT !.files = SelectSeq(@, LAMBDA e : ~StartsWith(e.path, dir \o SLASH)),
             !.components = SelectSeq(@, LAMBDA c : c.name # identifier /\ c.path # dir)]

\* if (result.deleted): unregister the files of the directory, drop the component
ComponentAfter(st, dir, identifier, result) ==
  IF result.deleted THEN ComponentDropped(st, dir, identifier, result) ELSE st

\* removeComponentCommand(identifier, options)
RemoveComponent(identifier, opts) ==
  LET st == ParseState(stateFile)
      dir == ComponentDirFor(st, identifier)
      r == SafeDeleteDir(disk, dir.path, [force |-> opts.force,
                                          stateFiles |-> st.files,
                                          acceptChanges |-> opts.acceptChanges,
                                          normalization |-> config.normalization,
                                          owner |-> identifier])
      st1 == ComponentAfter(st, dir.path, identifier, r)
  IN /\ CanRun
     /\ IF ~dir.ok
        THEN /\ disk' = disk
             /\ stateFile' = stateFile
             /\ cmd' = [op |-> "removeComponent", pc |-> "done", outcome |-> "traversal"]
        ELSE /\ disk' = r.disk
             /\ stateFile' = IF r.deleted THEN FileText(st1, TRUE) ELSE stateFile
             /\ cmd' = [op |-> "removeComponent", pc |-> "done",
                        outcome |-> IF r.deleted THEN "ok" ELSE "skipped",
                        opts |-> opts, identifier |-> identifier,
                        componentDir |-> dir.path,
                        fromLedger |-> HasComponent(st, identifier),
                        result |-> [deleted |-> r.deleted, message |-> r.message],
                        pre |-> st, preDisk |-> disk]
     /\ used' = [used EXCEPT !.cmds = @ + 1]
     /\ UNCHANGED <<tmpFiles, saves, saveQueue, crashed, lastRead, tasks, config>>

\* .textor/state.json is edited by hand: the recorded path of a component
UserEditLedger(dir) ==
  LET st == ParseState(stateFile)
  IN /\ CanEdit
     /\ Len(st.components) > 0
     /\ st.components[1].path # dir
     /\ stateFile' = FileText([st EXCEPT !.components[1].path = dir], TRUE)
     /\ cmd' = NoCmd
     /\ used' = [used EXCEPT !.edits = @ + 1]
     /\ UNCHANGED <<tmpFiles, saves, saveQueue, crashed, lastRead, tasks, disk, config>>

InitGuard ==
  /\ stateFile = Absent
  /\ tmpFiles = [j \in 1..MaxSaves |-> Absent]
  /\ saves = <<>>
  /\ saveQueue = 0
  /\ crashed = FALSE
  /\ lastRead = Absent
  /\ tasks = <<>>
  /\ disk = [q \in GuardPaths |-> Absent]
  /\ config \in Configs
  /\ cmd = NoCmd
  /\ used = NoneUsed

NextGuard ==
  \/ \E r \in GuardRoutes, f \in GuardFeatures, how \in FormatOutcomes : AddSectionCommand(r, f, how)
  \/ \E how \in FormatOutcomes : CreateComponent(how)
  \/ \E q \in GuardPaths, k \in BOOLEAN : UserEdit(q, k)
  \/ \E q \in OutsidePaths, k \in BOOLEAN : UserCreate(q, k)
  \/ UserEditLedger(componentsRoot \o SLASH \o UP \o SLASH \o OutDir)
  \/ \E id \in {<<"K">>, TravComp}, o \in RemoveOptions : RemoveComponent(id, o)
  \/ \E r \in {RouteA}, o \in RemoveOptions : RemoveStart(r, o)
  \/ RemoveRoute
  \/ RemoveDir
  \/ RemoveSave

SpecGuard == InitGuard /\ [][NextGuard]_vars

\* the paths a remove command has deleted
IoPaths ==
  IF cmd.op = "removeComponent"
  THEN (IF cmd.outcome = "ok" THEN {cmd.componentDir} ELSE {})
  ELSE IF cmd.op = "removeSection" /\ cmd.outcome # "threw"
  THEN (IF cmd.routeResult.deleted THEN {cmd.routeFile} ELSE {})
       \cup (IF cmd.dirResult.deleted THEN {cmd.featureDir} ELSE {})
  ELSE {}

\* the paths of the command that secureJoin has returned
GuardedPaths ==
  IF cmd.op = "removeComponent"
  THEN (IF cmd.outcome # "traversal" /\ ~cmd.fromLedger THEN {cmd.componentDir} ELSE {})
  ELSE IF cmd.op = "removeSection" /\ cmd.outcome # "threw"
  THEN {cmd.featureDir}
       \cup (IF \E i \in 1..Len(cmd.pre.files) : IsRouteOf(cmd.pre.files[i], cmd.route)
             THEN {} ELSE {cmd.routeFile})
  ELSE {}

\* Claim C13: every path that a command has deleted was returned by
\* secureJoin against its managed root before the deletion, also when the
\* path was taken from the ledger (a component's recorded path, a tracked
\* route file's recorded path).
C13_EveryPathGuarded == IoPaths \subseteq GuardedPaths

\* the files a command has deleted lie under a managed root
C13_OnlyManagedDeleted ==
  cmd.op = "removeComponent" =>
    \A q \in DOMAIN disk :
      (IF cmd.outcome = "traversal" THEN FALSE ELSE Exists(cmd.preDisk, q) /\ ~Exists(disk, q)) =>
        (UnderRoot(q, pagesRoot) \/ UnderRoot(q, featuresRoot) \/ UnderRoot(q, componentsRoot))

\* the route or the feature path resolves to a place that is not under its root
Escapes(route, feat) ==
  \/ (IF route = Null THEN FALSE
      ELSE ~UnderRoot(PathResolve(pagesRoot \o SLASH \o Slice(route, 1) \o AstroExt), pagesRoot))
  \/ ~UnderRoot(PathResolve(featuresRoot \o SLASH \o feat), featuresRoot)

\* Claim C14: addSection with a route or a feature path that resolves outside
\* the pages or features root ends with the path-traversal error, and the
\* step changes no file on disk and nothing of the ledger.
C14_TraversalRefused ==
  [][\A r \in GuardRoutes, f \in GuardFeatures, how \in FormatOutcomes :
       (Escapes(r, f) /\ AddSectionCommand(r, f, how)) =>
         /\ cmd'.outcome = "traversal"
         /\ UNCHANGED <<disk, stateFile>>]_vars

\* a route with ".." segments was refused in a project that already holds a
\* section and its files
C14_Witness ==
  /\ cmd.op = "addSection"
  /\ cmd.outcome = "traversal"
  /\ (IF "route" \in DOMAIN cmd THEN cmd.route = TravRoute ELSE FALSE)
  /\ Len(Ledger.sections) > 0
  /\ Exists(disk, PageA)

(***************************************************************************)
(* Deletion of a directory, under SpecGuard.                               *)
(***************************************************************************)
\* the file has no ledger entry, or its content hash is not its ledger hash
Drifted(files, dsk, q) ==
  IF HasFile(files, q)
  THEN CalculateHash(dsk[q], config.normalization) # GetFile(files, q).hash
  ELSE TRUE

BlockedDir(files, dsk, dir) == \E q \in FilesUnder(dsk, dir) : Drifted(files, dsk, q)

\* removeSection has passed its directory step, without force and without
\* acceptChanges, on a feature directory that held an untracked or drifted file
SectionDirBlocked ==
  IF cmd.op = "removeSection"
  THEN IF cmd.outcome # "threw" /\ cmd.pc \in {"save", "done"}
       THEN /\ ~cmd.opts.force
            /\ ~cmd.opts.acceptChanges
            /\ BlockedDir(cmd.pre.files, cmd.preDisk, cmd.featureDir)
       ELSE FALSE
  ELSE FALSE

\* the same for removeComponent and the directory of the component
ComponentDirBlocked ==
  IF cmd.op = "removeComponent"
  THEN IF cmd.outcome # "traversal"
       THEN /\ ~cmd.opts.force
            /\ ~cmd.opts.acceptChanges
            /\ BlockedDir(cmd.pre.files, cmd.preDisk, cmd.componentDir)
       ELSE FALSE
  ELSE FALSE

\* every file of the directory is on disk as before the command
DirUntouched(dir) == \A q \in FilesUnder(cmd.preDisk, dir) : disk[q] = cmd.preDisk[q]

\* every ledger entry of the directory is in the saved ledger as before
DirEntriesKept(dir) ==
  \A q \in Keys(cmd.pre.files) :
    UnderRoot(q, dir) => (HasFile(Ledger.files, q) /\ GetFile(Ledger.files, q) = GetFile(cmd.pre.files, q))

\* the directory was kept whole and the result is a skip with a reason
C15_NoFileDeleted ==
  /\ SectionDirBlocked =>
       (DirUntouched(cmd.featureDir) /\ ~cmd.dirResult.deleted /\ cmd.dirResult.message # "")
  /\ ComponentDirBlocked =>
       (DirUntouched(cmd.componentDir) /\ ~cmd.result.deleted /\ cmd.result.message # "")

\* Claim C15: when the directory given to safeDeleteDir holds a file without
\* a ledger entry or with a content hash other than its ledger hash, and
\* force is not set (nor acceptChanges), no file of the directory is deleted,
\* the result is a skip with a reason, and the remove command leaves the
\* ledger's file entries and the component or section record of the
\* directory in place.
C15_DirAllOrNothing ==
  /\ C15_NoFileDeleted
  /\ (SectionDirBlocked /\ cmd.pc = "done") =>
       /\ DirEntriesKept(cmd.featureDir)
       /\ \E i \in 1..Len(Ledger.sections) : Ledger.sections[i].route = cmd.route
  /\ ComponentDirBlocked =>
       /\ DirEntriesKept(cmd.componentDir)
       /\ Ledger.components = cmd.pre.components

\* the part of the claim about removeComponent
C15_ComponentKept ==
  ComponentDirBlocked =>
    /\ DirUntouched(cmd.componentDir) /\ ~cmd.result.deleted /\ cmd.result.message # ""
    /\ DirEntriesKept(cmd.componentDir)
    /\ Ledger.components = cmd.pre.components

C15_ComponentWitness == ComponentDirBlocked /\ Len(cmd.pre.components) > 0

(***************************************************************************)
(* Refused deletes and moves, under SpecChange.                            *)
(***************************************************************************)
\* the conflict check refuses the tracked file q of the disk before the
\* command, for the owner that asks, whatever normalization the hash is taken
\* with: its content drifted from the ledger hash or it has another owner
RefusedSource(q, owner) ==
  /\ HasFile(cmd.pre.files, q)
  /\ Exists(cmd.preDisk, q)
  /\ \A n \in Normalizations :
       ConflictCheck(cmd.preDisk, q, [force |-> FALSE,
                                      expectedHash |-> HashOf(cmd.pre.files, q),
                                      acceptChanges |-> FALSE,
                                      normalization |-> n,
                                      owner |-> owner,
                                      actualOwner |-> OwnerOf(cmd.pre.files, q)]) # "ok"

\* moveSection, without force and without acceptChanges, has passed its route
\* step on a route file that the conflict check refuses
MoveRefused ==
  IF cmd.op = "moveSection"
  THEN /\ cmd.pc \in {"dir", "save", "done"}
       /\ cmd.moved = 1
       /\ ~cmd.opts.force
       /\ ~cmd.opts.acceptChanges
       /\ RefusedSource(RouteFileOf(cmd.fromRoute), cmd.fromRoute)
  ELSE FALSE

\* removeSection, without force and without acceptChanges, has passed its
\* route step on a route file that the conflict check refuses
DeleteRefused ==
  IF cmd.op = "removeSection"
  THEN IF cmd.outcome # "threw"
       THEN /\ cmd.pc \in {"dir", "save", "done"}
            /\ ~cmd.opts.force
            /\ ~cmd.opts.acceptChanges
            /\ RefusedSource(cmd.routeFile, cmd.route)
       ELSE FALSE
  ELSE FALSE

\* the entry of q is in the ledger files as it was before the command
EntryKept(files, q) == HasFile(files, q) /\ GetFile(files, q) = GetFile(cmd.pre.files, q)

\* the part of the claim about a refused delete
C16_RefusedDelete ==
  DeleteRefused =>
    /\ ~cmd.routeResult.deleted
    /\ cmd.routeResult.message # ""
    /\ disk[cmd.routeFile] = cmd.preDisk[cmd.routeFile]
    /\ EntryKept(cmd.mem.files, cmd.routeFile)
    /\ (cmd.pc = "done" => EntryKept(Ledger.files, cmd.routeFile))

\* the part of the claim about the files of a refused move
C16_RefusedMoveOnDisk ==
  MoveRefused =>
    /\ disk[RouteFileOf(cmd.fromRoute)] = cmd.preDisk[RouteFileOf(cmd.fromRoute)]
    /\ (~Exists(cmd.preDisk, RouteFileOf(cmd.toRoute)) => ~Exists(disk, RouteFileOf(cmd.toRoute)))

\* Claim C16: a delete or a move that is refused because the source drifted
\* or belongs to another owner (no force, no acceptChanges) is not an error
\* but a skip with a reason; the source file stays where it is, nothing is
\* created at the destination, and the command does not re-key, alter or drop
\* the ledger entry of the source, neither in memory nor in the ledger it
\* saves.
C16_RefusalKeepsEntry ==
  /\ C16_RefusedDelete
  /\ C16_RefusedMoveOnDisk
  /\ MoveRefused =>
       /\ EntryKept(cmd.mem.files, RouteFileOf(cmd.fromRoute))
       /\ ~HasFile(cmd.mem.files, RouteFileOf(cmd.toRoute))
       /\ (cmd.pc = "done" /\ cmd.outcome = "ok") =>
            /\ EntryKept(Ledger.files, RouteFileOf(cmd.fromRoute))
            /\ ~HasFile(Ledger.files, RouteFileOf(cmd.toRoute))

\* the same for the ledger that a completed move has saved
C16_SavedLedgerKeepsEntry ==
  (MoveRefused /\ cmd.pc = "done" /\ cmd.outcome = "ok") =>
    /\ EntryKept(Ledger.files, RouteFileOf(cmd.fromRoute))
    /\ ~HasFile(Ledger.files, RouteFileOf(cmd.toRoute))

(***************************************************************************)
(* Moves, with files created by hand among the changes made outside the    *)
(* tool.                                                                   *)
(***************************************************************************)
NextMove ==
  \/ NextChange
  \/ \E q \in HandPaths, k \in BOOLEAN : UserCreate(q, k)

SpecMove == InitChange /\ [][NextMove]_vars

\* the tracked file q of the disk before the command has its ledger hash,
\* whatever normalization the hash is taken with
CleanSource(q) ==
  /\ HasFile(cmd.pre.files, q)
  /\ Exists(cmd.preDisk, q)
  /\ \A n \in Normalizations : CalculateHash(cmd.preDisk[q], n) = GetFile(cmd.pre.files, q).hash

\* the move has a feature directory to move
MovesDirectory ==
  /\ cmd.fromFeature # Null
  /\ cmd.toFeature # Null
  /\ cmd.fromFeature # cmd.toFeature
  /\ FilesUnder(cmd.preDisk, FeatureDirOf(cmd.fromFeature)) # {}

\* the files of the section that is moved: its route file and the files of
\* its feature directory
SourceFiles ==
  {RouteFileOf(cmd.fromRoute)} \cup
  (IF cmd.fromFeature = Null THEN {} ELSE FilesUnder(cmd.preDisk, FeatureDirOf(cmd.fromFeature)))

\* a moveSection without force of a tracked section whose files are as
\* generated
CleanMove ==
  IF cmd.op = "moveSection"
  THEN /\ cmd.hasSection
       /\ ~cmd.opts.force
       /\ \A q \in SourceFiles : CleanSource(q)
  ELSE FALSE

\* the route file of the new route exists before the move
RouteTargetExists == Exists(cmd.preDisk, RouteFileOf(cmd.toRoute))

\* the feature directory of the new route exists before the move
DirTargetExists ==
  MovesDirectory /\ FilesUnder(cmd.preDisk, FeatureDirOf(cmd.toFeature)) # {}

\* the move has failed and has left the files of the source and the saved
\* ledger as they were
FailedWhole ==
  /\ cmd.outcome = "threw"
  /\ \A q \in SourceFiles : disk[q] = cmd.preDisk[q]
  /\ Ledger = cmd.pre

\* the case of the claim where the route file of the target exists
C17_RouteTarget ==
  (CleanMove /\ RouteTargetExists /\ cmd.pc = "done") => FailedWhole

C17_RouteTargetWitness ==
  CleanMove /\ RouteTargetExists /\ cmd.pc = "done" /\ MovesDirectory

\* Claim C17: a move whose target (the route file or the feature directory of
\* the destination) exists, without force, fails with the destination-exists
\* error, and when it has failed no file of the source has been moved,
\* renamed or overwritten and the persisted ledger is as before the call.
C17_DestinationExists ==
  (CleanMove /\ (RouteTargetExists \/ DirTargetExists) /\ cmd.pc = "done") => FailedWhole

\* the move fails and the persisted ledger is as before the call
C17_FailsLedgerKept ==
  (CleanMove /\ (RouteTargetExists \/ DirTargetExists) /\ cmd.pc = "done") =>
    (cmd.outcome = "threw" /\ Ledger = cmd.pre)

(***************************************************************************)
(* The section records.  The project starts as addSectionCommand('/a',      *)
(* 'a', {}) leaves it, so that two more commands reach a ledger of two      *)
(* sections and a move between them.                                       *)
(***************************************************************************)
SectionA == [name |-> <<"A">>, route |-> RouteA, featurePath |-> <<"a">>,
             layout |-> "Main", extension |-> AstroExt]

PageAContent == WithSignature(RouteContent(NoDisk, PageA, <<"A">>))

FeatAContent == WithSignature(FeatureContent(<<"A">>))

DiskOfA == [NoDisk EXCEPT ![PageA] = PageAContent, ![FeatA] = FeatAContent]

LedgerOfA(mode) ==
  AddSectionToState(
    RegisterFile(
      RegisterFile(DefaultState, PageA,
                   FileRecord("route", "route", CalculateHash(PageAContent, mode), RouteA)),
      FeatA, FileRecord("feature", "feature", CalculateHash(FeatAContent, mode), RouteA)),
    SectionA)

\* updateSectionInState(oldRoute, newSection), the new section being the old
\* one under another route
UpdateSection(oldRoute, newRoute) ==
  LET st == ParseState(stateFile)
      newSection == [FindSection(st, oldRoute) EXCEPT !.route = newRoute]
      st1 == [st EXCEPT !.sections = Append(SelectSeq(@, LAMBDA x : x.route # oldRoute),
                                            newSection)]
  IN /\ CanRun
     /\ oldRoute # newRoute
     /\ \E i \in 1..Len(st.sections) : st.sections[i].route = oldRoute
     /\ FindSection(st, oldRoute).route = oldRoute
     /\ stateFile' = FileText(st1, TRUE)
     /\ cmd' = [op |-> "updateSection", pc |-> "done", outcome |-> "ok"]
     /\ used' = [used EXCEPT !.cmds = @ + 1]
     /\ UNCHANGED <<tmpFiles, saves, saveQueue, crashed, lastRead, tasks, disk, config>>

InitSections ==
  /\ config \in Configs
  /\ stateFile = FileText(LedgerOfA(config.normalization), TRUE)
  /\ tmpFiles = [j \in 1..MaxSaves |-> Absent]
  /\ saves = <<>>
  /\ saveQueue = 0
  /\ crashed = FALSE
  /\ lastRead = Absent
  /\ tasks = <<>>
  /\ disk = DiskOfA
  /\ cmd = NoCmd
  /\ used = NoneUsed

NextSections ==
  \/ \E r \in Routes, f \in Features, how \in FormatOutcomes : AddSection(r, f, how)
  \/ \E r \in Routes \ {Null}, t \in Routes \ {Null} : UpdateSection(r, t)
  \/ \E q \in Paths : UserDelete(q)
  \/ \E r \in Routes, o \in RemoveOptions : RemoveStart(r, o)
  \/ RemoveRoute
  \/ RemoveDir
  \/ RemoveSave
  \/ \E r \in Routes, t \in Routes, o \in MoveOptions : MoveStart(r, t, o)
  \/ \E n \in Normalizations : MoveRoute(n)
  \/ MoveDir
  \/ MoveSave

SpecSections == InitSections /\ [][NextSections]_vars

\* the project of InitSections is one that addSectionCommand leaves
SectionsStart ==
  /\ disk = DiskOfA
  /\ stateFile = FileText(LedgerOfA(config.normalization), TRUE)

\* Claim C18: after any sequence of addSection, updateSection, removeSection
\* and moveSection the ledger never holds two section records with the same
\* route.
C18_UniqueByRoute ==
  \A i \in 1..Len(Ledger.sections), j \in 1..Len(Ledger.sections) :
    i # j => Ledger.sections[i].route # Ledger.sections[j].route

\* the section records of a ledger that have the route
SectionsOfRoute(st, route) == SelectSeq(st.sections, LAMBDA x : x.route = route)

\* the step adds to a route, which has a section of another feature, a
\* feature that the route does not have yet
AddsFeatureToRoute(route, feat) ==
  /\ route # Null
  /\ Len(SectionsOfRoute(ParseState(stateFile), route)) > 0
  /\ \A i \in 1..Len(ParseState(stateFile).sections) :
       ParseState(stateFile).sections[i].route = route =>
         ParseState(stateFile).sections[i].featurePath # feat

\* Claim C19: an addSection that adds a further feature, with a feature path
\* of its own, to a route leaves one more section record of that route in
\* the ledger, and every earlier record of the route is still there.
C19_OneRecordPerFeature ==
  [][\A r \in Routes, f \in Features, how \in FormatOutcomes :
       (AddsFeatureToRoute(r, f) /\ AddSection(r, f, how)) =>
         /\ Len(SectionsOfRoute(ParseState(stateFile'), r))
              = Len(SectionsOfRoute(ParseState(stateFile), r)) + 1
         /\ \A i \in 1..Len(ParseState(stateFile).sections) :
              ParseState(stateFile).sections[i].route = r =>
                \E j \in 1..Len(ParseState(stateFile').sections) :
                  ParseState(stateFile').sections[j] = ParseState(stateFile).sections[i]]_vars

(***************************************************************************)
(* A completed move.                                                       *)
(***************************************************************************)
\* the ledger entries of the section that is moved: those of its route
\* file, of its feature directory and of its owner
SourceEntries ==
  {q \in Keys(cmd.pre.files) :
     \/ q = RouteFileOf(cmd.fromRoute)
     \/ (IF cmd.fromFeature = Null THEN FALSE ELSE UnderRoot(q, FeatureDirOf(cmd.fromFeature)))
     \/ OwnerOf(cmd.pre.files, q) = cmd.fromRoute}

\* a moveSection of a tracked section, whose files are all on disk as
\* generated, has ended well
MovedUnedited ==
  IF cmd.op = "moveSection"
  THEN /\ cmd.pc = "done"
       /\ cmd.outcome = "ok"
       /\ cmd.hasSection
       /\ cmd.fromFeature # Null
       /\ HasFile(cmd.pre.files, RouteFileOf(cmd.fromRoute))
       /\ \A q \in SourceEntries : CleanSource(q)
  ELSE FALSE

\* the path under the new route of a path of the old one
NewPathOf(q) ==
  IF q = RouteFileOf(cmd.fromRoute) THEN RouteFileOf(cmd.toRoute)
  ELSE IF q = FeatureFileOf(cmd.fromFeature) THEN FeatureFileOf(cmd.toFeature)
  ELSE q

\* the file entries and the files of the moved section are under the new
\* paths, owned by the new route, with nothing left under an old path
MovedFilesAndEntries ==
  \A q \in SourceEntries :
    /\ HasFile(Ledger.files, NewPathOf(q))
    /\ Exists(disk, NewPathOf(q))
    /\ NewPathOf(q) # q => (~HasFile(Ledger.files, q) /\ ~Exists(disk, q))
    /\ OwnerOf(cmd.pre.files, q) = cmd.fromRoute =>
         OwnerOf(Ledger.files, NewPathOf(q)) = cmd.toRoute

\* Claim C20: after a successful moveSection of a tracked, unedited section
\* from route A to another route B the ledger holds exactly one section of
\* route B and none of route A, every file entry of the old route file and
\* of the old feature directory is keyed under the new path with none left
\* under an old path, every entry owned by A is owned by B, and the old
\* files are absent from disk and the new ones present.
C20_MoveRekeysSection ==
  MovedUnedited =>
    /\ Len(SectionsOfRoute(Ledger, cmd.toRoute)) = 1
    /\ Len(SectionsOfRoute(Ledger, cmd.fromRoute)) = 0
    /\ MovedFilesAndEntries

\* the same for a move to a route that had no section
C20_MoveToFreeRoute ==
  (MovedUnedited /\ Len(SectionsOfRoute(cmd.pre, cmd.toRoute)) = 0) =>
    /\ Len(SectionsOfRoute(Ledger, cmd.toRoute)) = 1
    /\ Len(SectionsOfRoute(Ledger, cmd.fromRoute)) = 0
    /\ MovedFilesAndEntries

C20_FreeRouteWitness ==
  /\ MovedUnedited
  /\ Len(SectionsOfRoute(cmd.pre, cmd.toRoute)) = 0
  /\ MovesDirectory

(***************************************************************************)
(* loadState on every content of the ledger file, and the read-modify-write *)
(* functions that follow it: registerFile through the save queue,           *)
(* addSectionToState, addComponentToState and removeSectionFromState.       *)
(***************************************************************************)
LedgerFields == {"sections", "components", "files"}

\* {"files": {}}, {"sections": [], "components": []} and {"sections": [], "files": {}}
ObjFilesOnly == [files |-> EmptyFiles]
ObjNoFiles == [sections |-> <<>>, components |-> <<>>]
ObjNoComponents == [sections |-> <<>>, files |-> EmptyFiles]

LoadTexts ==
  {Absent, FileText(DefaultState, TRUE), FileText(DocA, TRUE), FileText(DocA, FALSE),
   FileText(JsonNull, TRUE), FileText(JsonScalar, TRUE), FileText(JsonArray, TRUE),
   FileText(ObjFilesOnly, TRUE), FileText(ObjNoFiles, TRUE), FileText(ObjNoComponents, TRUE)}

Unparseable(text) == IF text = Absent THEN FALSE ELSE ~text.complete

ComponentA == [name |-> <<"A">>, path |-> componentsRoot \o SLASH \o <<"A">>]

NoSavePending == \A j \in 1..Len(saves) : Settled(j)

\* loadState()
LoadState ==
  /\ ~crashed
  /\ cmd' = [op |-> "loadState", pc |-> "done", outcome |-> "ok",
             text |-> stateFile, loaded |-> ParseState(stateFile)]
  /\ cmd' # cmd
  /\ lastRead' = stateFile
  /\ UNCHANGED <<stateFile, tmpFiles, saves, saveQueue, crashed, tasks, disk, config, used>>

\* a read-modify-write of one field of the loaded state: filter and push on
\* state[field] raise a TypeError when loadState returned a value without it
LedgerUpdate(op, field, after) ==
  /\ CanRun
  /\ NoSavePending
  /\ \A t \in 1..Len(tasks) : tasks[t].pc = "done"
  /\ LET st == ParseState(stateFile)
     IN IF field \in DOMAIN st
        THEN /\ stateFile' = FileText(after, TRUE)
             /\ cmd' = [op |-> op, pc |-> "done", outcome |-> "ok", text |-> stateFile, loaded |-> st]
        ELSE /\ stateFile' = stateFile
             /\ cmd' = [op |-> op, pc |-> "done", outcome |-> "threw", text |-> stateFile, loaded |-> st]
  /\ lastRead' = stateFile
  /\ used' = [used EXCEPT !.cmds = @ + 1]
  /\ UNCHANGED <<tmpFiles, saves, saveQueue, crashed, tasks, disk, config>>

AddSectionState(sec) ==
  LedgerUpdate("addSectionToState", "sections", AddSectionToState(ParseState(stateFile), sec))

AddComponentState(comp) ==
  LedgerUpdate("addComponentToState", "components", AddComponentToState(ParseState(stateFile), comp))

\* removeSectionFromState(route)
RemoveSectionState(route) ==
  LedgerUpdate("removeSectionFromState", "sections",
               [ParseState(stateFile) EXCEPT
                  !.sections = SelectSeq(@, LAMBDA x : x.route # route /\ x.name # route)])

InitLoad ==
  /\ stateFile \in LoadTexts
  /\ tmpFiles = [j \in 1..MaxSaves |-> Absent]
  /\ saves = <<>>
  /\ saveQueue = 0
  /\ crashed = FALSE
  /\ lastRead = Absent
  /\ tasks = <<>>
  /\ disk = NoDisk
  /\ config = DefaultConfig
  /\ cmd = NoCmd
  /\ used = NoneUsed

NextLoad ==
  \/ LoadState
  \/ AddSectionState(SectionA)
  \/ AddComponentState(ComponentA)
  \/ RemoveSectionState(RouteA)
  \/ \E q \in RegPaths : RegStart(q)
  \/ \E t \in 1..Len(tasks) : RegRead(t)
  \/ \E t \in 1..Len(tasks) : RegSave(t)
  \/ \E t \in 1..Len(tasks) : RegDone(t)
  \/ \E j \in 1..Len(saves) : SaveOpen(j)
  \/ \E j \in 1..Len(saves) : SaveWrite(j)
  \/ \E j \in 1..Len(saves) : SaveClose(j)
  \/ \E j \in 1..Len(saves) : SaveRename(j)

SpecLoad == InitLoad /\ [][NextLoad]_vars

\* the one registerFile call has returned and nothing else wrote the ledger
OneRegistration ==
  /\ Len(tasks) = 1
  /\ tasks[1].pc = "done"
  /\ used.cmds = 0

RoundTripAt(text) ==
  LET st == ParseState(text)
      q == RelPath(tasks[1].path)
  IN IF HasFile(st.files, q) THEN GetFile(st.files, q) = RegRecord(q) ELSE FALSE

C21_ObjectRoundTrip ==
  /\ OneRegistration
  /\ RoundTripAt(stateFile)
  /\ stateFile.doc.sections = <<>>

NotReadable(text) == text = Absent \/ Unparseable(text)

\* C22: loadState of a ledger file that does not exist, or whose content does
\* not parse, returns the empty default state and leaves the file as it was
C22_LoadNeverFails ==
  [][(LoadState /\ NotReadable(stateFile))
       => /\ cmd'.outcome = "ok"
          /\ cmd'.loaded = DefaultState
          /\ stateFile' = stateFile
          /\ tmpFiles' = tmpFiles]_vars

\* loadState has returned the default state for a text that was cut short,
\* and the text is still in the file
C22_Witness ==
  IF cmd.op = "loadState"
  THEN /\ Unparseable(cmd.text)
       /\ cmd.text.doc # DefaultState
       /\ cmd.loaded = DefaultState
       /\ stateFile = cmd.text
  ELSE FALSE

HasLedgerFields(value) == LedgerFields \subseteq DOMAIN value

LoadedByCommand ==
  IF cmd.op \in {"loadState", "addSectionToState", "addComponentToState", "removeSectionFromState"}
  THEN cmd.text # Absent
  ELSE FALSE

\* C30: what loadState returns for a content that parses as JSON has
\* sections, components and files, and the read-modify-write that follows
\* it does not raise
C30_AllLedgerFields ==
  (LoadedByCommand /\ ~Unparseable(cmd.text))
    => HasLedgerFields(cmd.loaded) /\ cmd.outcome # "threw"

\* for null and for a number the default state is returned
C30_ScalarGivesDefault ==
  IF LoadedByCommand
  THEN /\ cmd.text.complete
       /\ IsPrimitive(cmd.text.doc)
       /\ cmd.loaded = DefaultState
       /\ cmd.outcome = "ok"
  ELSE FALSE

\* path.isAbsolute
IsAbsolute(q) == StartsWith(q, SLASH)

\* C23: in every reachable ledger each component record's path is a
\* project-relative directory, never an absolute path
C23_ComponentPathsRelative ==
  \A i \in 1..Len(Ledger.components) : ~IsAbsolute(Ledger.components[i].path)

\* a component record written by the reconstruction of sync or prune holds
\* the relative directory
C23_ReconstructedRelative ==
  IF cmd.op \in {"sync", "prune"}
  THEN /\ cmd.pc = "done"
       /\ cmd.outcome = "ok"
       /\ Len(Ledger.components) > 0
       /\ \A i \in 1..Len(Ledger.components) :
            Ledger.components[i].path = componentsRoot \o SLASH \o Ledger.components[i].name
  ELSE FALSE

Reconstructed ==
  IF cmd.op \in {"sync", "prune"}
  THEN cmd.pc = "done" /\ cmd.outcome = "ok" /\ cmd.saved
  ELSE FALSE

\* a record as addSection writes it (with its layout) of a routed section
\* whose route file and feature file are tracked before and after
IntactSection(sec) ==
  /\ "layout" \in DOMAIN sec
  /\ sec.route # Null
  /\ \A st \in {cmd.pre, Ledger} :
       /\ HasFile(st.files, RouteFileOf(sec.route))
       /\ HasFile(st.files, FeatureFileOf(sec.featurePath))

\* C24: when prune or sync reconstructs the metadata, every section record
\* created by addSection whose route file and feature files are all still
\* tracked is present afterwards, unchanged
C24_IntactSectionsKept ==
  Reconstructed =>
    \A i \in 1..Len(cmd.pre.sections) :
      IntactSection(cmd.pre.sections[i]) =>
        \E k \in 1..Len(Ledger.sections) : Ledger.sections[k] = cmd.pre.sections[i]

\* the same with all routes of the ledger routed, so that the reconstruction
\* does not raise
C24_RewrittenSection ==
  IF Reconstructed
  THEN \E i \in 1..Len(cmd.pre.sections) :
         /\ IntactSection(cmd.pre.sections[i])
         /\ \E k \in 1..Len(Ledger.sections) :
              /\ Ledger.sections[k].route = cmd.pre.sections[i].route
              /\ Ledger.sections[k] # cmd.pre.sections[i]
  ELSE FALSE

ReconcileEnded == IF cmd.op \in {"sync", "prune"} THEN cmd.pc = "done" ELSE FALSE

StandaloneTracked(st, sec) ==
  /\ sec.route = Null
  /\ \E q \in Keys(st.files) : UnderRoot(q, SectionFeatureDir(sec))

\* C25: prune and sync complete without raising on every ledger, also one
\* with a section whose route is null; such a section is retained by the
\* reconstruction while files of its feature directory are tracked
C25_StandaloneSectionHandled ==
  ReconcileEnded =>
    /\ cmd.outcome # "threw"
    /\ cmd.saved =>
         \A i \in 1..Len(cmd.pre.sections) :
           StandaloneTracked(Ledger, cmd.pre.sections[i]) =>
             \E k \in 1..Len(Ledger.sections) : Ledger.sections[k] = cmd.pre.sections[i]

ConflictReasons ==
  {"owned by a different entity", "content changed since last generation", "not generated",
   "directory holds changed or foreign files"}

\* removeSection has ended, it deleted nothing, and the route file or the
\* feature directory was skipped for a conflict
RemovalAllRefused ==
  IF cmd.op = "removeSection"
  THEN IF cmd.outcome = "ok" /\ cmd.pc = "done"
       THEN /\ ~cmd.routeResult.deleted
            /\ ~cmd.dirResult.deleted
            /\ \/ cmd.routeResult.message \in ConflictReasons
               \/ cmd.dirResult.message \in ConflictReasons
       ELSE FALSE
  ELSE FALSE

\* C26: when every deletion removeSection attempted was refused, the saved
\* ledger has the same file entries and the same section records as before
C26_RefusedRemovalKeepsLedger ==
  RemovalAllRefused =>
    /\ disk = cmd.preDisk
    /\ Ledger.files = cmd.pre.files
    /\ Ledger.sections = cmd.pre.sections

\* the file entries are kept, the section record is not
C26_SectionDropped ==
  /\ RemovalAllRefused
  /\ config.formatting = "none"
  /\ Ledger.files = cmd.pre.files
  /\ Exists(disk, cmd.routeFile)
  /\ FilesUnder(disk, cmd.featureDir) # {}
  /\ \A i \in 1..Len(Ledger.sections) : Ledger.sections[i].route # cmd.route

LastOf(seq) == seq[Len(seq)]

\* addSection has run in this step and has registered a route-less section
AddsStandalone ==
  /\ used'.cmds = used.cmds + 1
  /\ cmd'.op = "addSection"
  /\ cmd'.outcome = "ok"
  /\ Len(ParseState(stateFile').sections) > 0
  /\ LastOf(ParseState(stateFile').sections).route = Null

\* C27: after addSectionToState of a route-less section, every section that
\* was registered before with a different featurePath is still in the ledger
C27_StandaloneKeepsOthers ==
  [][AddsStandalone =>
       \A i \in 1..Len(Ledger.sections) :
         Ledger.sections[i].featurePath # LastOf(ParseState(stateFile').sections).featurePath
           => \E k \in 1..Len(ParseState(stateFile').sections) :
                ParseState(stateFile').sections[k] = Ledger.sections[i]]_vars

\* a routed section is kept when a route-less one is registered after it
C27_RoutedKept ==
  /\ Len(Ledger.sections) = 2
  /\ Ledger.sections[1].route # Null
  /\ Ledger.sections[2].route = Null

(***************************************************************************)
(* Two runs of sync in one project: sections and components are created,    *)
(* the user edits, deletes and creates files, sync runs up to twice.        *)
(***************************************************************************)
NextSync ==
  \/ \E r \in Routes, f \in Features, how \in FormatOutcomes : AddSection(r, f, how)
  \/ \E how \in FormatOutcomes : CreateComponent(how)
  \/ \E q \in Paths, k \in BOOLEAN : UserEdit(q, k)
  \/ \E q \in Paths : UserDelete(q)
  \/ \E q \in HandPaths, k \in BOOLEAN : UserCreate(q, k)
  \/ \E o \in SyncOptions : SyncRun(o, MaxSyncs)

InitSync ==
  /\ stateFile = Absent
  /\ tmpFiles = [j \in 1..MaxSaves |-> Absent]
  /\ saves = <<>>
  /\ saveQueue = 0
  /\ crashed = FALSE
  /\ lastRead = Absent
  /\ tasks = <<>>
  /\ disk = NoDisk
  /\ config = DefaultConfig
  /\ cmd = NoCmd
  /\ used = NoneUsed

SpecSync == InitSync /\ [][NextSync]_vars

SyncWasApplied ==
  IF cmd.op = "sync"
  THEN cmd.pc = "done" /\ cmd.outcome = "ok" /\ ~cmd.opts.dryRun
  ELSE FALSE

JobStep(j) ==
  /\ j \in 1..Len(saves)
  /\ \/ SaveOpen(j)
     \/ SaveWrite(j)
     \/ SaveClose(j)
     \/ SaveRename(j)
     \/ SaveFail(j)

NextSaveLive ==
  \/ \E doc \in SaveDocs : IssueSave(doc)
  \/ \E j \in 1..Len(saves) : SaveOpen(j)
  \/ \E j \in 1..Len(saves) : SaveWrite(j)
  \/ \E j \in 1..Len(saves) : SaveClose(j)
  \/ \E j \in 1..Len(saves) : SaveRename(j)
  \/ \E j \in 1..Len(saves) : SaveFail(j)
  \/ Load

SpecSaveLive ==
  /\ InitSave
  /\ [][NextSaveLive]_vars
  /\ \A j \in 1..MaxSaves : WF_vars(JobStep(j))

Issued(j) == Len(saves) >= j

Ended(j) == IF Issued(j) THEN saves[j].st \in {"done", "failed"} ELSE FALSE

\* a save that raises changes the outcome of its own call only and leaves
\* state.json as it was
FailureIsLocal ==
  \A j \in 1..Len(saves) :
    SaveFail(j) =>
      /\ stateFile' = stateFile
      /\ \A k \in 1..Len(saves) : k # j => saves'[k] = saves[k]

\* a job starts only after every save issued before it has ended
StartsInIssueOrder ==
  \A j \in 1..Len(saves) :
    SaveOpen(j) => \A k \in 1..(j - 1) : Ended(k)

\* C29: a failed saveState is delivered to its caller only, state.json keeps
\* its previous complete document, and every save issued before or after it
\* still runs in issue order and eventually ends
C29_FailedSaveDoesNotStall ==
  /\ [][FailureIsLocal /\ StartsInIssueOrder]_vars
  /\ [](stateFile # Absent => stateFile.complete)
  /\ \A j \in 1..MaxSaves : Issued(j) ~> Ended(j)

\* the save issued after a failed one has run and its document is the file
C29_Witness ==
  /\ Len(saves) >= 2
  /\ saves[1].st = "failed"
  /\ saves[2].st = "done"
  /\ stateFile = FileText(saves[2].doc, TRUE)

====
